---- MODULE Spec2Model ----
(***************************************************************************)
(* A model of mac_monitor/monitor.py.  The process-listing pipeline:       *)
(* run_command -> process parsers -> sort_processes -> the paginated       *)
(* category query get_processes_by_category.  The overview: the cpu,       *)
(* memory, disk, network and system snapshots, analyze_system_performance, *)
(* and the tools get_resource_intensive_processes and get_system_overview  *)
(* that put them together behind safe_call.                                *)
(*                                                                         *)
(* Text is held as Python holds it after split('\n'): a sequence of lines, *)
(* each line a sequence of one-character strings.  A float is held exactly *)
(* as <<n, e>>, meaning n / 10^e, with trailing zero decimals removed.     *)
(***************************************************************************)
EXTENDS Integers, Sequences, FiniteSets, TLC

VARIABLES
    sys,      \* what the operating system's commands do, one field per command
    procs,    \* a process list handed directly to sort_processes
    pc,       \* "idle": no request in progress; "done": a response is ready
    call,     \* the operation in progress and its arguments
    result,   \* the value the operation returned (or the exception it raised)
    ran,      \* the helper functions the operation invoked
    commands  \* the external commands the operation ran, in order

vars == <<sys, procs, pc, call, result, ran, commands>>

----------------------------------------------------------------------------
(* Characters and strings *)

Digits == <<"0", "1", "2", "3", "4", "5", "6", "7", "8", "9">>

UpperCase == <<"A", "B", "C", "D", "E", "F", "G", "H", "I", "J", "K", "L", "M",
               "N", "O", "P", "Q", "R", "S", "T", "U", "V", "W", "X", "Y", "Z">>

LowerCase == <<"a", "b", "c", "d", "e", "f", "g", "h", "i", "j", "k", "l", "m",
               "n", "o", "p", "q", "r", "s", "t", "u", "v", "w", "x", "y", "z">>

\* The characters of the model in code-point order.
AsciiOrder == <<"\t", " ", "%", "+", "-", ".", "/">> \o Digits \o <<":">>
              \o UpperCase \o <<"_">> \o LowerCase

IsDigit(c) == c \in {"0", "1", "2", "3", "4", "5", "6", "7", "8", "9"}

DigitVal(c) == (CHOOSE i \in 1..Len(Digits) : Digits[i] = c) - 1

\* ord(c), up to the offset that comparisons do not see
CodePoint == [c \in {AsciiOrder[i] : i \in 1..Len(AsciiOrder)} |->
                 CHOOSE i \in 1..Len(AsciiOrder) : AsciiOrder[i] = c]

Ord(c) == CodePoint[c]

LowerOf == [c \in {UpperCase[i] : i \in 1..Len(UpperCase)} |->
               LowerCase[CHOOSE i \in 1..Len(UpperCase) : UpperCase[i] = c]]

\* str.lower() on one character
LowerChar(c) == IF c \in DOMAIN LowerOf THEN LowerOf[c] ELSE c

\* str.lower() on a string held as characters
LowerChars(s) == [i \in 1..Len(s) |-> LowerChar(s[i])]

\* Python's < on two strings: code-point lexicographic order
RECURSIVE StrLess(_, _)
StrLess(a, b) ==
    IF b = <<>> THEN FALSE
    ELSE IF a = <<>> THEN TRUE
    ELSE IF Ord(a[1]) # Ord(b[1]) THEN Ord(a[1]) < Ord(b[1])
    ELSE StrLess(Tail(a), Tail(b))

\* the characters str.split(None) and str.strip() treat as whitespace
IsSpace(c) == c \in {" ", "\t"}

\* not line.strip()
Blank(s) == \A i \in 1..Len(s) : IsSpace(s[i])

\* the first index at or after i that holds no whitespace, Len(s) + 1 if none
RECURSIVE SkipSpaces(_, _)
SkipSpaces(s, i) ==
    IF i > Len(s) \/ ~IsSpace(s[i]) THEN i ELSE SkipSpaces(s, i + 1)

\* the first index at or after i that holds whitespace, Len(s) + 1 if none
RECURSIVE SkipToken(_, _)
SkipToken(s, i) ==
    IF i > Len(s) \/ IsSpace(s[i]) THEN i ELSE SkipToken(s, i + 1)

\* the last index at or before i that holds no whitespace, 0 if none
RECURSIVE LastNonSpace(_, _)
LastNonSpace(s, i) ==
    IF i = 0 \/ ~IsSpace(s[i]) THEN i ELSE LastNonSpace(s, i - 1)

LStrip(s) == SubSeq(s, SkipSpaces(s, 1), Len(s))

RStrip(s) == SubSeq(s, 1, LastNonSpace(s, Len(s)))

\* line.split(None, maxsplit) from index i on; maxsplit = -1 is line.split().
\* After maxsplit splits the remainder is kept whole, leading whitespace
\* removed and trailing whitespace kept.
RECURSIVE SplitFrom(_, _, _)
SplitFrom(line, i, maxsplit) ==
    LET a == SkipSpaces(line, i) IN
    IF a > Len(line) THEN <<>>
    ELSE IF maxsplit = 0 THEN <<SubSeq(line, a, Len(line))>>
    ELSE LET b == SkipToken(line, a)
         IN  <<SubSeq(line, a, b - 1)>> \o SplitFrom(line, b, maxsplit - 1)

\* a slip: line.split(), every field split off
SplitEveryField(line, maxsplit) == SplitFrom(line, 1, -1)

Split(line, maxsplit) == SplitFrom(line, 1, maxsplit)

Reverse(s) == [i \in 1..Len(s) |-> s[Len(s) + 1 - i]]

----------------------------------------------------------------------------
(* Numbers *)

RECURSIVE Pow10(_)
Pow10(e) == IF e = 0 THEN 1 ELSE 10 * Pow10(e - 1)

RECURSIVE DigitsVal(_)
DigitsVal(s) == IF s = <<>> THEN 0
                ELSE 10 * DigitsVal(SubSeq(s, 1, Len(s) - 1)) + DigitVal(s[Len(s)])

HasSign(tok) == tok # <<>> /\ tok[1] \in {"+", "-"}

Unsigned(tok) == IF HasSign(tok) THEN Tail(tok) ELSE tok

SignOf(tok) == IF tok # <<>> /\ tok[1] = "-" THEN -1 ELSE 1

\* int(tok) succeeds: an optional sign and at least one digit, nothing else
IsInt(tok) ==
    LET u == Unsigned(tok) IN u # <<>> /\ \A i \in 1..Len(u) : IsDigit(u[i])

\* int(tok), for IsInt(tok)
ParseInt(tok) == SignOf(tok) * DigitsVal(Unsigned(tok))

\* float(tok) succeeds: an optional sign, digits with at most one point, and
\* at least one digit
IsFloat(tok) ==
    LET u == Unsigned(tok) IN
    /\ \A i \in 1..Len(u) : IsDigit(u[i]) \/ u[i] = "."
    /\ Cardinality({i \in 1..Len(u) : u[i] = "."}) <= 1
    /\ \E i \in 1..Len(u) : IsDigit(u[i])

RECURSIVE Normalize(_)
Normalize(v) == IF v[2] > 0 /\ v[1] % 10 = 0
                THEN Normalize(<<v[1] \div 10, v[2] - 1>>)
                ELSE v

\* float(tok), for IsFloat(tok)
ParseFloat(tok) ==
    LET u   == Unsigned(tok)
        dot == {i \in 1..Len(u) : u[i] = "."}
        e   == IF dot = {} THEN 0 ELSE Len(u) - (CHOOSE i \in dot : TRUE)
        ds  == SelectSeq(u, IsDigit)
    IN  Normalize(<<SignOf(tok) * DigitsVal(ds), e>>)

\* Python's < on two floats
FloatLess(a, b) == a[1] * Pow10(b[2]) < b[1] * Pow10(a[2])

Zero == <<0, 0>>

----------------------------------------------------------------------------
(* run_command *)

Min(a, b) == IF a < b THEN a ELSE b

\* seq[start:stop] for 0 <= start and 0 <= stop
PySlice(s, start, stop) ==
    LET hi == Min(stop, Len(s)) IN
    IF start >= hi THEN <<>> ELSE SubSeq(s, start + 1, hi)

\* "Error running command: " followed by the cause: one line of text
ErrorText == << <<"E", "r", "r", "o", "r", " ", "r", "u", "n", "n", "i", "n", "g", " ",
                  "c", "o", "m", "m", "a", "n", "d", ":", " ", "f", "a", "i", "l", "e", "d">> >>

\* text.strip().split('\n') on a text held as its lines: whitespace-only
\* lines at both ends disappear, the first remaining line loses its leading
\* and the last its trailing whitespace; ''.split('\n') is ['']
StripLines(ls, a, b) ==
    [i \in 1..(b - a + 1) |->
        IF i = 1 /\ i = b - a + 1 THEN RStrip(LStrip(ls[a]))
        ELSE IF i = 1 THEN LStrip(ls[a])
        ELSE IF i = b - a + 1 THEN RStrip(ls[b])
        ELSE ls[a + i - 1]]

\* the first line at or after i that is not blank, Len(ls) + 1 if none
RECURSIVE FirstLine(_, _)
FirstLine(ls, i) == IF i > Len(ls) \/ ~Blank(ls[i]) THEN i ELSE FirstLine(ls, i + 1)

\* the last line at or before i that is not blank, 0 if none
RECURSIVE LastLine(_, _)
LastLine(ls, i) == IF i = 0 \/ ~Blank(ls[i]) THEN i ELSE LastLine(ls, i - 1)

StripText(ls) ==
    IF FirstLine(ls, 1) > Len(ls) THEN << <<>> >>
    ELSE StripLines(ls, FirstLine(ls, 1), LastLine(ls, Len(ls)))

\* run_command(cmd), then output.split('\n'): the stripped standard output of
\* the child, whatever its exit status, or the error text when
\* subprocess.run raised (timeout, spawn failure).  p is what the operating
\* system does with the command: [outcome, stdout].
run_command(p) ==
    IF p.outcome \in {"timeout", "spawn_failure"} THEN ErrorText
    ELSE StripText(p.stdout)

CommandFailed(p) == p.outcome \in {"timeout", "spawn_failure"}

----------------------------------------------------------------------------
(* Return values: a value, or the exception that left the function *)

Ok(v) == [kind |-> "ok", value |-> v]

Raise(e) == [kind |-> "raise", exc |-> e]

----------------------------------------------------------------------------
(* Process parsers *)

CpuRecord(parts) ==
    [pid |-> parts[1], cpu_percent |-> ParseFloat(parts[2]), command |-> parts[3]]

MemRecord(parts) ==
    [pid |-> parts[1], memory_percent |-> ParseFloat(parts[2]),
     resident_memory_kb |-> ParseInt(parts[3]), command |-> parts[4]]

\* float(parts[1]) does not raise
CpuNumeric(parts) == IsFloat(parts[2])

\* float(parts[1]) and int(parts[2]) do not raise
MemNumeric(parts) == IsFloat(parts[2]) /\ IsInt(parts[3])

\* line.split(None, maxsplit) for each line
SplitAll(ls, maxsplit) == [i \in 1..Len(ls) |-> Split(ls[i], maxsplit)]

MapCpu(ps) == [i \in 1..Len(ps) |-> CpuRecord(ps[i])]

MapMem(ps) == [i \in 1..Len(ps) |-> MemRecord(ps[i])]

\* the loop of get_cpu_intensive_processes over lines[1:limit+1]: a line of
\* three parts whose second is no float raises ValueError out of the function
get_cpu_intensive_processes(lines, limit) ==
    LET window == PySlice(lines, 1, limit + 1)
        kept   == SelectSeq(SplitAll(window, 2), LAMBDA parts : Len(parts) >= 3)
    IN  IF \E i \in 1..Len(kept) : ~CpuNumeric(kept[i])
        THEN Raise("ValueError")
        ELSE Ok(MapCpu(kept))

get_memory_intensive_processes(lines, limit) ==
    LET window == PySlice(lines, 1, limit + 1)
        kept   == SelectSeq(SplitAll(window, 3), LAMBDA parts : Len(parts) >= 4)
    IN  IF \E i \in 1..Len(kept) : ~MemNumeric(kept[i])
        THEN Raise("ValueError")
        ELSE Ok(MapMem(kept))

\* the loop of get_all_cpu_processes over lines[1:]: blank lines, short lines
\* and lines whose number does not parse are skipped
get_all_cpu_processes(lines) ==
    LET rest  == SelectSeq(PySlice(lines, 1, Len(lines)), LAMBDA l : ~Blank(l))
        kept  == SelectSeq(SplitAll(rest, 2), LAMBDA parts :
                     Len(parts) >= 3 /\ CpuNumeric(parts))
    IN  MapCpu(kept)

get_all_memory_processes(lines) ==
    LET rest  == SelectSeq(PySlice(lines, 1, Len(lines)), LAMBDA l : ~Blank(l))
        kept  == SelectSeq(SplitAll(rest, 3), LAMBDA parts :
                     Len(parts) >= 4 /\ MemNumeric(parts))
    IN  MapMem(kept)

----------------------------------------------------------------------------
(* sort_processes *)

HasKey(p, f) == f \in DOMAIN p

\* Python's None, as the value of a field
None == <<"None">>

\* pid_key: int(p['pid']), or 0 when int() raises ValueError (no integer
\* literal) or TypeError (None)
pid_key(p) == IF p.pid # None /\ IsInt(p.pid) THEN ParseInt(p.pid) ELSE 0

\* p.get('command', '').lower()
command_key(p) == IF HasKey(p, "command") THEN LowerChars(p.command) ELSE <<>>

FloatFields == {"cpu_percent", "memory_percent"}

IntFields == {"resident_memory_kb", "network_connections"}

\* the key function sort_processes hands to sorted() for sort_by
KeyOf(sort_by, p) ==
    CASE sort_by = "pid"     -> pid_key(p)
      [] sort_by = "command" -> command_key(p)
      [] sort_by \in FloatFields -> IF HasKey(p, sort_by) THEN p[sort_by] ELSE Zero
      [] sort_by \in IntFields   -> IF HasKey(p, sort_by) THEN p[sort_by] ELSE 0

\* Python's < on two keys of the kind sort_by yields
KeyLess(sort_by, k1, k2) ==
    CASE sort_by = "command"     -> StrLess(k1, k2)
      [] sort_by \in FloatFields -> FloatLess(k1, k2)
      [] OTHER                   -> k1 < k2

\* x placed into the ascending s after every element that is not greater
RECURSIVE InsertByKey(_, _, _)
InsertByKey(x, s, sort_by) ==
    IF s = <<>> THEN <<x>>
    ELSE IF KeyLess(sort_by, x.key, s[1].key) THEN <<x>> \o s
    ELSE <<s[1]>> \o InsertByKey(x, Tail(s), sort_by)

\* a stable ascending sort of [key, item] pairs by key
RECURSIVE SortAscending(_, _)
SortAscending(s, sort_by) ==
    IF s = <<>> THEN <<>>
    ELSE InsertByKey(s[Len(s)], SortAscending(SubSeq(s, 1, Len(s) - 1), sort_by), sort_by)

\* the elements of a sequence of [key, item] pairs
Items(s) == [i \in 1..Len(s) |-> s[i].item]

\* the [key, item] pair of every element of s
Keyed(s, sort_by) == [i \in 1..Len(s) |-> [key |-> KeyOf(sort_by, s[i]), item |-> s[i]]]

\* a slip: descending order taken as the ascending result read backwards
PySortedBackwards(s, sort_by, reverse) ==
    IF reverse THEN Reverse(Items(SortAscending(Keyed(s, sort_by), sort_by)))
    ELSE Items(SortAscending(Keyed(s, sort_by), sort_by))

\* sorted(s, key=..., reverse=reverse): the key of each element is computed
\* once; Python sorts stably, and with reverse=True keeps elements of equal
\* key in their original order (it reverses, sorts ascending, reverses back)
PySorted(s, sort_by, reverse) ==
    LET keyed  == Keyed(s, sort_by)
        sorted == IF reverse THEN Reverse(SortAscending(Reverse(keyed), sort_by))
                  ELSE SortAscending(keyed, sort_by)
    IN  Items(sorted)

SortFields == {"pid", "command"} \cup FloatFields \cup IntFields

\* the key function raises on some record: p['pid'] on a record without pid
\* is a KeyError, which pid_key does not catch
KeyRaises(processes, sort_by) ==
    sort_by = "pid" /\ \E i \in 1..Len(processes) : ~HasKey(processes[i], "pid")

\* sorted() raises: with two or more records every key is compared with
\* another one, and < between None and anything is a TypeError (of the
\* records considered only a percentage can be None)
CompareRaises(processes, sort_by) ==
    /\ Len(processes) >= 2
    /\ sort_by \in FloatFields
    /\ \E i \in 1..Len(processes) :
           HasKey(processes[i], sort_by) /\ processes[i][sort_by] = None

\* a slip: a list that cannot be sorted loses its first record
sort_processes_dropping(processes, process_type, sort_by, sort_order) ==
    IF processes = <<>> \/ HasKey(processes[1], "error") THEN processes
    ELSE IF sort_by \notin SortFields THEN processes
    ELSE IF KeyRaises(processes, sort_by) THEN Tail(processes)
    ELSE IF CompareRaises(processes, sort_by) THEN Tail(processes)
    ELSE PySorted(processes, sort_by, sort_order = "desc")

sort_processes(processes, process_type, sort_by, sort_order) ==
    IF processes = <<>> \/ HasKey(processes[1], "error") THEN processes
    ELSE IF sort_by \notin SortFields THEN processes
    ELSE IF KeyRaises(processes, sort_by) THEN processes
    ELSE IF CompareRaises(processes, sort_by) THEN processes
    ELSE PySorted(processes, sort_by, sort_order = "desc")

----------------------------------------------------------------------------
(* Network listing parsers *)

\* a slip: the header line is not skipped
NetFieldsAllLines(lines) ==
    SelectSeq(SplitAll(lines, -1), LAMBDA parts : Len(parts) >= 9)

\* the fields of the lsof lines that count: lines[1:] with at least 9 fields
NetFields(lines) ==
    SelectSeq(SplitAll(PySlice(lines, 1, Len(lines)), -1), LAMBDA parts : Len(parts) >= 9)

\* process_counts and process_pids after the loop, in the insertion order of
\* the dict: one entry per command, its count, and the first PID seen
RECURSIVE Tally(_, _)
Tally(fields, acc) ==
    IF fields = <<>> THEN acc
    ELSE LET t == fields[1] IN
         Tally(Tail(fields),
               IF \E i \in 1..Len(acc) : acc[i].command = t[1]
               THEN [i \in 1..Len(acc) |->
                        IF acc[i].command = t[1]
                        THEN [acc[i] EXCEPT !.network_connections = @ + 1]
                        ELSE acc[i]]
               ELSE Append(acc, [pid |-> t[2], command |-> t[1],
                                 network_connections |-> 1]))

get_all_network_processes(lines) ==
    PySorted(Tally(NetFields(lines), <<>>), "network_connections", TRUE)

get_network_intensive_processes(lines, limit) ==
    LET sorted_processes == PySorted(Tally(NetFields(lines), <<>>), "network_connections", TRUE)
        top == PySlice(sorted_processes, 0, limit)
    IN  [i \in 1..Len(top) |->
            [command |-> top[i].command,
             network_connections |-> top[i].network_connections]]

----------------------------------------------------------------------------
(* get_processes_by_category *)

\* str.lower() on the argument strings of the requests
Lower(s) ==
    CASE s = "CPU" -> "cpu"
      [] s = "PID" -> "pid"
      [] s = "ASC" -> "asc"
      [] OTHER     -> s

InSeq(x, s) == \E i \in 1..Len(s) : s[i] = x

valid_types == <<"cpu", "memory", "network">>

\* a slip: one list of fields for every category
valid_sort_fields_shared(process_type) ==
    <<"auto", "cpu_percent", "memory_percent", "resident_memory_kb",
      "network_connections", "pid", "command">>

valid_sort_fields(process_type) ==
    CASE process_type = "cpu"     -> <<"auto", "cpu_percent", "pid", "command">>
      [] process_type = "memory"  -> <<"auto", "memory_percent", "resident_memory_kb",
                                       "pid", "command">>
      [] process_type = "network" -> <<"auto", "network_connections", "pid", "command">>

sort_field_map(process_type) ==
    CASE process_type = "cpu"     -> "cpu_percent"
      [] process_type = "memory"  -> "memory_percent"
      [] process_type = "network" -> "network_connections"

DefaultPageSize == 10

MaxPageSize == 100

\* page after "if page < 1: page = 1"
ClampPage(page) == IF page < 1 THEN 1 ELSE page

\* a slip: no upper limit
ClampPageSizeBelow(page_size) == IF page_size < 1 THEN DefaultPageSize ELSE page_size

\* page_size after "if page_size < 1 ... elif page_size > 100 ..."
ClampPageSize(page_size) ==
    IF page_size < 1 THEN DefaultPageSize
    ELSE IF page_size > MaxPageSize THEN MaxPageSize
    ELSE page_size

\* sort_order after lower() and the fallback to 'desc'
NormalizeOrder(sort_order) ==
    IF Lower(sort_order) \notin {"asc", "desc"} THEN "desc" ELSE Lower(sort_order)

\* the command line each category's full listing runs
CommandOf(process_type) ==
    CASE process_type = "cpu"     -> "ps -eo pid,%cpu,comm -r"
      [] process_type = "memory"  -> "ps -eo pid,pmem,rss,comm -m"
      [] process_type = "network" -> "lsof -i -n -P"

GetterOf(process_type) ==
    CASE process_type = "cpu"     -> "get_all_cpu_processes"
      [] process_type = "memory"  -> "get_all_memory_processes"
      [] process_type = "network" -> "get_all_network_processes"

\* "Get all processes for the specified type"
GetAll(env, process_type) ==
    CASE process_type = "cpu"     -> get_all_cpu_processes(run_command(env.cpu))
      [] process_type = "memory"  -> get_all_memory_processes(run_command(env.mem))
      [] process_type = "network" -> get_all_network_processes(run_command(env.net))

\* "Apply custom sorting if not using default"
ApplySort(all_processes, process_type, sort_by, sort_order) ==
    IF sort_by # "auto"
    THEN sort_processes(all_processes, process_type, sort_by, sort_order)
    ELSE all_processes

\* a slip: the number of full pages
TotalPagesFloor(total_processes, page_size) == total_processes \div page_size

\* total_pages = (total_processes + page_size - 1) // page_size
TotalPages(total_processes, page_size) ==
    (total_processes + page_size - 1) \div page_size

\* a slip: the last page claims a successor
HasNextInclusive(page, total_pages) == page <= total_pages

\* has_next = page < total_pages
HasNext(page, total_pages) == page < total_pages

\* a slip: every page after the first starts on the last item of the page
\* before it
PaginateOverlapping(all_processes, page, page_size) ==
    LET total_processes == Len(all_processes)
        start_index     == IF page > 1 THEN (page - 1) * page_size - 1 ELSE 0
        end_index       == Min(start_index + page_size, total_processes)
        total_pages     == TotalPages(total_processes, page_size)
    IN  [processes  |-> PySlice(all_processes, start_index, end_index),
         pagination |-> [current_page      |-> page,
                         page_size         |-> page_size,
                         total_processes   |-> total_processes,
                         total_pages       |-> total_pages,
                         has_next_page     |-> HasNext(page, total_pages),
                         has_previous_page |-> page > 1]]

\* "Calculate pagination": the slice and its metadata
Paginate(all_processes, page, page_size) ==
    LET total_processes == Len(all_processes)
        start_index     == (page - 1) * page_size
        end_index       == Min(start_index + page_size, total_processes)
        total_pages     == TotalPages(total_processes, page_size)
    IN  [processes  |-> PySlice(all_processes, start_index, end_index),
         pagination |-> [current_page      |-> page,
                         page_size         |-> page_size,
                         total_processes   |-> total_processes,
                         total_pages       |-> total_pages,
                         has_next_page     |-> HasNext(page, total_pages),
                         has_previous_page |-> page > 1]]

\* the error object for a process_type that is not one of valid_types
InvalidProcessType(process_type) ==
    [response |-> [error |-> "Invalid process_type", given |-> process_type,
                   valid |-> valid_types],
     ran |-> {}, commands |-> <<>>]

\* a slip: the sort field is checked only after the listing was fetched
InvalidSortByAfterRetrieval(process_type, sort_by) ==
    [response |-> [error |-> "Invalid sort_by", given |-> sort_by,
                   valid |-> valid_sort_fields(process_type)],
     ran |-> {GetterOf(process_type), "run_command"},
     commands |-> <<CommandOf(process_type)>>]

\* the error object for a sort_by that process_type does not support
InvalidSortBy(process_type, sort_by) ==
    [response |-> [error |-> "Invalid sort_by", given |-> sort_by,
                   valid |-> valid_sort_fields(process_type)],
     ran |-> {}, commands |-> <<>>]

\* the result object of a valid request, from the page cut for it
PageResponse(process_type, sort_by, sort_order, paged) ==
    [response |->
        [process_type |-> process_type,
         processes    |-> paged.processes,
         sorting      |-> [sort_by |-> IF sort_by = "auto"
                                       THEN sort_field_map(process_type)
                                       ELSE sort_by,
                           sort_order |-> sort_order,
                           requested_sort_by |-> sort_by],
         pagination   |-> paged.pagination],
     ran |-> {GetterOf(process_type), "run_command"}
               \cup (IF sort_by # "auto" THEN {"sort_processes"} ELSE {}),
     commands |-> <<CommandOf(process_type)>>]

\* the handler: [response, ran, commands], the JSON object it returns, the
\* helpers it called and the commands it ran
get_processes_by_category(env, process_type, page, page_size, sort_by, sort_order) ==
    IF ~InSeq(Lower(process_type), valid_types)
    THEN InvalidProcessType(process_type)
    ELSE LET page1  == ClampPage(page)
             size1  == ClampPageSize(page_size)
             order1 == NormalizeOrder(sort_order)
             by1    == Lower(sort_by)
             type1  == Lower(process_type)
         IN  IF ~InSeq(by1, valid_sort_fields(type1))
             THEN InvalidSortBy(type1, by1)
             ELSE PageResponse(type1, by1, order1,
                      Paginate(ApplySort(GetAll(env, type1), type1, by1, order1),
                               page1, size1))

----------------------------------------------------------------------------
(* What the operating system prints *)

\* Sample lines of the two ps listings: the text, whether it is a well-formed
\* data line, and for a well-formed line the record it describes.

CpuHeader == <<" ", " ", "P", "I", "D", " ", " ", "%", "C", "P", "U", " ", "C", "O", "M", "M">>

MemHeader == <<" ", " ", "P", "I", "D", " ", "%", "M", "E", "M", " ", " ", " ", " ", "R", "S", "S", " ", "C", "O", "M", "M">>

NetHeader == <<"C", "O", "M", "M", "A", "N", "D", " ", "P", "I", "D", " ", "U", "S", "E", "R", " ", "F", "D", " ", "T", "Y", "P", "E", " ", "D", "E", "V", "I", "C", "E", " ", "S", "I", "Z", "E", "/", "O", "F", "F", " ", "N", "O", "D", "E", " ", "N", "A", "M", "E">>

CpuSamples == <<
    [text |-> <<" ", " ", "1", " ", " ", "0", ".", "0", " ", "/", "s", "b", "i", "n", "/", "i", "n", "i", "t">>,
     wf |-> TRUE,
     rec |-> [pid |-> <<"1">>, cpu_percent |-> <<0, 0>>,
             command |-> <<"/", "s", "b", "i", "n", "/", "i", "n", "i", "t">>]],
    [text |-> <<"1", "2", " ", "5", ".", "5", " ", "/", "A", "/", "W", "e", "b", " ", "K", "i", "t">>,
     wf |-> TRUE,
     rec |-> [pid |-> <<"1", "2">>, cpu_percent |-> <<55, 1>>,
             command |-> <<"/", "A", "/", "W", "e", "b", " ", "K", "i", "t">>]],
    [text |-> <<"7", "\t", "1", "0", " ", "b", " ", " ", "c">>,
     wf |-> TRUE,
     rec |-> [pid |-> <<"7">>, cpu_percent |-> <<10, 0>>,
             command |-> <<"b", " ", " ", "c">>]],
    [text |-> <<"9", " ", "1", ".", "0">>,
     wf |-> FALSE, rec |-> <<>>],
    [text |-> <<>>,
     wf |-> FALSE, rec |-> <<>>],
    [text |-> <<" ", "\t">>,
     wf |-> FALSE, rec |-> <<>>],
    [text |-> <<"4", " ", "x", ".", "y", " ", "z">>,
     wf |-> FALSE, rec |-> <<>>],
    [text |-> <<"5", " ", "2", ".", "0", " ", "d", " ">>,
     wf |-> FALSE, rec |-> <<>>] >>

MemSamples == <<
    [text |-> <<" ", " ", "1", " ", " ", "0", ".", "1", " ", " ", " ", " ", "3", "2", " ", "/", "s", "b", "i", "n", "/", "i", "n", "i", "t">>,
     wf |-> TRUE,
     rec |-> [pid |-> <<"1">>, memory_percent |-> <<1, 1>>, resident_memory_kb |-> 32,
             command |-> <<"/", "s", "b", "i", "n", "/", "i", "n", "i", "t">>]],
    [text |-> <<"1", "2", " ", "5", ".", "5", " ", "1", "0", "0", "0", " ", "/", "A", "/", "W", "e", "b", " ", "K", "i", "t">>,
     wf |-> TRUE,
     rec |-> [pid |-> <<"1", "2">>, memory_percent |-> <<55, 1>>, resident_memory_kb |-> 1000,
             command |-> <<"/", "A", "/", "W", "e", "b", " ", "K", "i", "t">>]],
    [text |-> <<"7", "\t", "9", " ", "4", "0", "9", "6", " ", "b", " ", " ", "c">>,
     wf |-> TRUE,
     rec |-> [pid |-> <<"7">>, memory_percent |-> <<9, 0>>, resident_memory_kb |-> 4096,
             command |-> <<"b", " ", " ", "c">>]],
    [text |-> <<"9", " ", "1", ".", "0", " ", "7", "7">>,
     wf |-> FALSE, rec |-> <<>>],
    [text |-> <<>>,
     wf |-> FALSE, rec |-> <<>>],
    [text |-> <<"4", " ", "1", ".", "0", " ", "1", ".", "5", " ", "z">>,
     wf |-> FALSE, rec |-> <<>>],
    [text |-> <<"4", " ", "x", ".", "y", " ", "1", "0", " ", "z">>,
     wf |-> FALSE, rec |-> <<>>],
    [text |-> <<"5", " ", "2", ".", "0", " ", "6", "4", " ", "d", " ">>,
     wf |-> FALSE, rec |-> <<>>] >>

\* the decimal digits of n >= 0, as ps prints a number
RECURSIVE IntChars(_)
IntChars(n) == IF n < 10 THEN <<Digits[n + 1]>>
               ELSE IntChars(n \div 10) \o <<Digits[(n % 10) + 1]>>

\* a percentage given in tenths, as ps prints it: one decimal
PercentChars(t) == IntChars(t \div 10) \o <<".">> \o IntChars(t % 10)

CommandPool == <<
    <<"/", "u", "/", "Z", "e", "d">>,
    <<"a", "l", "p", "h", "a">>,
    <<"/", "A", "/", "W", "e", "b", " ", "K", "i", "t">>,
    <<"A", "l", "p", "h", "a">> >>

NetCommandPool == <<
    <<"C", "h", "r", "o", "m", "e">>,
    <<"m", "D", "N", "S">>,
    <<"s", "s", "h", "d">> >>

\* the rest of an lsof line after COMMAND and PID: seven more fields
NetLineRest == <<" ", "u", " ", "3", " ", "i", " ", "0", " ", "0", " ", "T", " ", "*", ":", "8", "0">>

\* process i of a table of n: distinct PIDs in no particular order, usage
\* falling with i and equal for neighbours, as "ps -r" and "ps -m" list them
PidOf(i) == (i * 7) % 29

UsageOf(i, n) == ((n - i) \div 2) * 5

CommandOfProcess(i) == CommandPool[(i % Len(CommandPool)) + 1]

CpuLine(i, n) ==
    <<" ", " ">> \o IntChars(PidOf(i)) \o <<" ", " ">> \o PercentChars(UsageOf(i, n))
        \o <<" ">> \o CommandOfProcess(i)

MemLine(i, n) ==
    <<" ", " ">> \o IntChars(PidOf(i)) \o <<" ">> \o PercentChars(UsageOf(i, n))
        \o <<" ", " ">> \o IntChars(UsageOf(i, n) * 100 + (i % 3))
        \o <<" ">> \o CommandOfProcess(i)

NetLine(i) ==
    NetCommandPool[IF i % 4 = 0 THEN 3 ELSE IF i % 2 = 1 THEN 1 ELSE 2]
        \o <<" ">> \o IntChars(200 + (i % 3)) \o NetLineRest

Exit0(lines) == [outcome |-> "exit0", stdout |-> lines]

\* a machine running n processes, each holding one connection; the text ends
\* with the newline the commands print, hence an empty last line
Healthy(n) ==
    [cpu |-> Exit0(<<CpuHeader>> \o [i \in 1..n |-> CpuLine(i, n)] \o << <<>> >>),
     mem |-> Exit0(<<MemHeader>> \o [i \in 1..n |-> MemLine(i, n)] \o << <<>> >>),
     net |-> Exit0(<<NetHeader>> \o [i \in 1..n |-> NetLine(i)] \o << <<>> >>)]

\* a machine on which no command can be run to completion
Failing ==
    [cpu |-> [outcome |-> "timeout", stdout |-> <<>>],
     mem |-> [outcome |-> "spawn_failure", stdout |-> <<>>],
     net |-> [outcome |-> "exit1", stdout |-> <<>>]]

\* the sample lines in the order ps lists them, highest usage first
RacingOrder == <<3, 2, 8, 4, 7, 5, 6, 1>>

SampleTexts(samples) == [i \in 1..Len(RacingOrder) |-> samples[RacingOrder[i]].text]

\* a listing caught while the process table changes: every sample line,
\* truncated and unparsable ones included
Racing ==
    [cpu |-> Exit0(<<CpuHeader>> \o SampleTexts(CpuSamples)),
     mem |-> Exit0(<<MemHeader>> \o SampleTexts(MemSamples)),
     net |-> [outcome |-> "exit1",
              stdout |-> <<NetHeader, NetLine(1), <<"s", "s", "h", "d", " ", "7", " ", "r", "o", "o", "t">>, NetLine(2), NetLine(3)>>]]

\* Sample lines of the lsof listing: a connection of Chrome, one of another
\* Chrome process, one of mDNS with a state after the name (ten fields), one
\* of sshd, a line cut short, and an empty line
NetSamples == <<
    <<"C", "h", "r", "o", "m", "e", " ", "2", "0", "1", " ", "u", " ", "3", " ", "i", " ", "0", " ", "0", " ", "T", " ", "*", ":", "8", "0">>,
    <<"C", "h", "r", "o", "m", "e", " ", " ", "2", "0", "2", " ", "u", " ", "3", " ", "i", " ", "0", " ", "0", " ", "T", " ", "*", ":", "8", "0">>,
    <<"m", "D", "N", "S", " ", "5", "3", " ", "u", " ", "3", " ", "i", " ", "0", " ", "0", " ", "U", " ", "*", ":", "5", "3", " ", "(", "L", ")">>,
    <<"s", "s", "h", "d", "\t", "2", "2", " ", "u", " ", "3", " ", "i", " ", "0", " ", "0", " ", "T", " ", "*", ":", "8", "0">>,
    <<"s", "s", "h", "d", " ", "7", " ", "r", "o", "o", "t">>,
    <<>> >>

----------------------------------------------------------------------------
(* Bounds and the inputs drawn within them *)

MaxProcs == 3

MaxPage == 4

MaxSmallPageSize == 2

MaxLines == 3

MaxLimit == 2

MaxLen == 3

DefaultLimit == 5

TableSizes == (0..MaxProcs) \cup {23}

Scenarios == {Healthy(n) : n \in TableSizes} \cup {Failing, Racing}

ProcessTypes == {"cpu", "memory", "network", "CPU", "disk"}

Pages == 0..MaxPage

PageSizes == (0..MaxSmallPageSize) \cup {DefaultPageSize, MaxPageSize, MaxPageSize + 1}

SortBys == {"auto", "pid", "command", "cpu_percent", "memory_percent",
            "resident_memory_kb", "network_connections", "PID", "name"}

SortOrders == {"asc", "desc", "ASC", "up"}

\* every sequence over the set S of length at most n
SeqsUpTo(S, n) == UNION {[1..k -> S] : k \in 0..n}

TextsOf(samples) == {samples[i].text : i \in 1..Len(samples)}

----------------------------------------------------------------------------
(* The state machine *)

NoCall == [op |-> "none"]

NoResult == [kind |-> "none"]

Idle == /\ pc = "idle"
        /\ call = NoCall
        /\ result = NoResult
        /\ ran = {}
        /\ commands = <<>>

\* the server holds no state between requests: sys is the machine it runs on
Init == /\ sys \in Scenarios
        /\ procs = <<>>
        /\ Idle

\* a request for the paginated category query, run to completion
GetProcessesByCategory ==
    /\ pc = "idle"
    /\ \E process_type \in ProcessTypes, page \in Pages, page_size \in PageSizes,
          sort_by \in SortBys, sort_order \in SortOrders :
          \E r \in {get_processes_by_category(sys, process_type, page, page_size,
                                                sort_by, sort_order)} :
              /\ call' = [op |-> "get_processes_by_category",
                          process_type |-> process_type, page |-> page,
                          page_size |-> page_size, sort_by |-> sort_by,
                          sort_order |-> sort_order]
              /\ result' = Ok(r.response)
              /\ ran' = r.ran
              /\ commands' = r.commands
    /\ pc' = "done"
    /\ UNCHANGED <<sys, procs>>

\* the response leaves; nothing of the request is retained
Return ==
    /\ pc = "done"
    /\ pc' = "idle"
    /\ call' = NoCall
    /\ result' = NoResult
    /\ ran' = {}
    /\ commands' = <<>>
    /\ UNCHANGED <<sys, procs>>

Next == GetProcessesByCategory \/ Return

Spec == Init /\ [][Next]_vars

----------------------------------------------------------------------------
(* The process parsers on their own, over every short listing *)

HeaderOnly ==
    [cpu |-> Exit0(<<CpuHeader>>), mem |-> Exit0(<<MemHeader>>),
     net |-> Exit0(<<NetHeader>>)]

CpuListings == {<<CpuHeader>> \o body : body \in SeqsUpTo(TextsOf(CpuSamples), MaxLines)}

MemListings == {<<MemHeader>> \o body : body \in SeqsUpTo(TextsOf(MemSamples), MaxLines)}

\* lsof prints its header only when it lists something
NetListings == {<<NetHeader>> \o body :
                   body \in SeqsUpTo({NetSamples[i] : i \in 1..Len(NetSamples)}, MaxLines)}
               \cup {<<>>}

Limits == (1..MaxLimit) \cup {DefaultLimit}

InitParse ==
    /\ \/ \E text \in CpuListings : sys = [HeaderOnly EXCEPT !.cpu = Exit0(text)]
       \/ \E text \in MemListings : sys = [HeaderOnly EXCEPT !.mem = Exit0(text)]
       \/ \E text \in NetListings : sys = [HeaderOnly EXCEPT !.net = Exit0(text)]
    /\ procs = <<>>
    /\ Idle

GetCpuIntensiveProcesses ==
    /\ pc = "idle"
    /\ \E limit \in Limits :
          /\ call' = [op |-> "get_cpu_intensive_processes", limit |-> limit]
          /\ result' = get_cpu_intensive_processes(run_command(sys.cpu), limit)
    /\ ran' = {"run_command"}
    /\ commands' = <<CommandOf("cpu")>>
    /\ pc' = "done"
    /\ UNCHANGED <<sys, procs>>

GetMemoryIntensiveProcesses ==
    /\ pc = "idle"
    /\ \E limit \in Limits :
          /\ call' = [op |-> "get_memory_intensive_processes", limit |-> limit]
          /\ result' = get_memory_intensive_processes(run_command(sys.mem), limit)
    /\ ran' = {"run_command"}
    /\ commands' = <<CommandOf("memory")>>
    /\ pc' = "done"
    /\ UNCHANGED <<sys, procs>>

GetAllCpuProcesses ==
    /\ pc = "idle"
    /\ call' = [op |-> "get_all_cpu_processes"]
    /\ result' = Ok(get_all_cpu_processes(run_command(sys.cpu)))
    /\ ran' = {"run_command"}
    /\ commands' = <<CommandOf("cpu")>>
    /\ pc' = "done"
    /\ UNCHANGED <<sys, procs>>

GetAllMemoryProcesses ==
    /\ pc = "idle"
    /\ call' = [op |-> "get_all_memory_processes"]
    /\ result' = Ok(get_all_memory_processes(run_command(sys.mem)))
    /\ ran' = {"run_command"}
    /\ commands' = <<CommandOf("memory")>>
    /\ pc' = "done"
    /\ UNCHANGED <<sys, procs>>

GetNetworkIntensiveProcesses ==
    /\ pc = "idle"
    /\ \E limit \in Limits :
          /\ call' = [op |-> "get_network_intensive_processes", limit |-> limit]
          /\ result' = Ok(get_network_intensive_processes(run_command(sys.net), limit))
    /\ ran' = {"run_command"}
    /\ commands' = <<CommandOf("network")>>
    /\ pc' = "done"
    /\ UNCHANGED <<sys, procs>>

GetAllNetworkProcesses ==
    /\ pc = "idle"
    /\ call' = [op |-> "get_all_network_processes"]
    /\ result' = Ok(get_all_network_processes(run_command(sys.net)))
    /\ ran' = {"run_command"}
    /\ commands' = <<CommandOf("network")>>
    /\ pc' = "done"
    /\ UNCHANGED <<sys, procs>>

NextParse ==
    \/ GetCpuIntensiveProcesses
    \/ GetMemoryIntensiveProcesses
    \/ GetAllCpuProcesses
    \/ GetAllMemoryProcesses
    \/ GetNetworkIntensiveProcesses
    \/ GetAllNetworkProcesses
    \/ Return

SpecParse == InitParse /\ [][NextParse]_vars

----------------------------------------------------------------------------
(* sort_processes on its own, over every short list of records *)

\* records of every shape the listings produce, with PIDs that are numeric,
\* not numeric, None and absent, with equal keys, and with a key that is
\* None
SortSamples == {
    [pid |-> <<"3">>, cpu_percent |-> None, command |-> <<"n">>],
    [pid |-> <<"1", "0">>, cpu_percent |-> <<15, 1>>, command |-> <<"b">>],
    [pid |-> <<"9">>, cpu_percent |-> <<15, 1>>, command |-> <<"B">>],
    [pid |-> <<"a", "b", "c">>, cpu_percent |-> <<2, 0>>, command |-> <<"a">>],
    [pid |-> None, command |-> <<"d">>, network_connections |-> 3],
    [command |-> <<"c">>, network_connections |-> 2],
    [pid |-> <<"0">>, memory_percent |-> <<5, 1>>, resident_memory_kb |-> 100,
     command |-> <<"z">>],
    [error |-> "Could not determine network processes"] }

SortByInputs == SortFields \cup {"name"}

InitSort ==
    /\ sys = HeaderOnly
    /\ procs \in SeqsUpTo(SortSamples, MaxLen)
    /\ Idle

SortProcesses ==
    /\ pc = "idle"
    /\ \E process_type \in {"cpu", "memory", "network"}, sort_by \in SortByInputs,
          sort_order \in {"asc", "desc"} :
          /\ call' = [op |-> "sort_processes", process_type |-> process_type,
                      sort_by |-> sort_by, sort_order |-> sort_order]
          /\ result' = Ok(sort_processes(procs, process_type, sort_by, sort_order))
    /\ ran' = {}
    /\ commands' = <<>>
    /\ pc' = "done"
    /\ UNCHANGED <<sys, procs>>

NextSort == SortProcesses \/ Return

SpecSort == InitSort /\ [][NextSort]_vars

----------------------------------------------------------------------------
(* Properties of the paginated category query *)

Max(a, b) == IF a > b THEN a ELSE b

\* the least k with k * d >= n, for n >= 0 and d >= 1
Ceiling(n, d) == CHOOSE k \in 0..n : k * d >= n /\ (k = 0 \/ (k - 1) * d < n)

\* a category query has returned
QueryDone == pc = "done" /\ call.op = "get_processes_by_category"

\* ... with an error object
QueryFailed == QueryDone /\ "error" \in DOMAIN result.value

\* ... with a page of processes
QuerySucceeded == QueryDone /\ "error" \notin DOMAIN result.value

\* the paging arguments as section 8 says they are treated
EffectivePage == IF call.page < 1 THEN 1 ELSE call.page

EffectivePageSize ==
    IF call.page_size > 100 THEN 100
    ELSE IF call.page_size < 1 THEN 10
    ELSE call.page_size

\* the number of items page p of size d holds when there are n items
ItemsOnPage(n, p, d) == Max(0, Min(d, n - (p - 1) * d))

\* C1: in every successful response total_pages is ceil(total / page_size)
\* and the number of returned processes is
\* max(0, min(page_size, total - (page - 1) * page_size)), for the effective
\* page and page_size, also beyond the last page and for total = 0.
C1_PageArithmetic ==
    QuerySucceeded =>
        LET pagination == result.value.pagination
            total      == pagination.total_processes
        IN  /\ total = Len(GetAll(sys, Lower(call.process_type)))
            /\ pagination.total_pages = Ceiling(total, EffectivePageSize)
            /\ Len(result.value.processes)
                   = ItemsOnPage(total, EffectivePage, EffectivePageSize)

\* a page beyond the last one of a non-empty list was requested and is empty
C1_Witness ==
    /\ QuerySucceeded
    /\ result.value.pagination.total_processes = 3
    /\ result.value.pagination.page_size = 2
    /\ result.value.pagination.total_pages = 2
    /\ call.page = 3
    /\ result.value.processes = <<>>

\* C2: has_next_page is true exactly when current_page < total_pages and
\* has_previous_page is false exactly when current_page = 1; for 23 processes
\* and page_size 10, pages 1, 2, 3 hold 10, 10, 3 items, total_pages is 3 and
\* has_next_page is true on pages 1 and 2 and false on page 3.
C2_PageFlags ==
    QuerySucceeded =>
        LET pagination == result.value.pagination
            total      == pagination.total_processes
            page       == pagination.current_page
        IN  /\ pagination.has_next_page <=> page < Ceiling(total, pagination.page_size)
            /\ ~pagination.has_previous_page <=> page = 1
            /\ (total = 23 /\ pagination.page_size = 10) =>
                   /\ pagination.total_pages = 3
                   /\ page \in 1..3 => Len(result.value.processes) = <<10, 10, 3>>[page]
                   /\ pagination.has_next_page <=> page \in {1, 2}

\* the third and last page of 23 processes, ten to a page
C2_Witness ==
    /\ QuerySucceeded
    /\ result.value.pagination.total_processes = 23
    /\ call.page_size = 10
    /\ call.page = 3
    /\ Len(result.value.processes) = 3
    /\ ~result.value.pagination.has_next_page
    /\ result.value.pagination.has_previous_page

\* C3: page < 1 is treated as 1, page_size > 100 as 100 and page_size < 1 as
\* 10, so the page_size echoed and used for slicing is in 1..100 and
\* current_page is at least 1.
C3_PagingNormalised ==
    QuerySucceeded =>
        LET pagination == result.value.pagination IN
        /\ pagination.current_page = EffectivePage
        /\ pagination.page_size = EffectivePageSize
        /\ pagination.page_size \in 1..100
        /\ pagination.current_page >= 1
        /\ Len(result.value.processes) <= pagination.page_size
        /\ Len(result.value.processes)
               = ItemsOnPage(pagination.total_processes, EffectivePage, EffectivePageSize)

\* page 0 with page_size 101 answered as page 1 with page_size 100
C3_Witness ==
    /\ QuerySucceeded
    /\ call.page = 0
    /\ call.page_size = 101
    /\ result.value.pagination.current_page = 1
    /\ result.value.pagination.page_size = 100
    /\ Len(result.value.processes) = 23

\* the sort fields each category accepts, as the docstring of
\* get_processes_by_category lists them
AcceptedFields(category) ==
    CASE category = "cpu"     -> {"auto", "pid", "command", "cpu_percent"}
      [] category = "memory"  -> {"auto", "pid", "command", "memory_percent",
                                  "resident_memory_kb"}
      [] category = "network" -> {"auto", "pid", "command", "network_connections"}

\* the request names a category, in any letter case
ValidCategory == Lower(call.process_type) \in {"cpu", "memory", "network"}

\* the request is invalid: no category, or a sort field the category lacks
InvalidRequest ==
    \/ ~ValidCategory
    \/ Lower(call.sort_by) \notin AcceptedFields(Lower(call.process_type))

\* C4: an invalid process_type or an unsupported sort_by is answered with an
\* error object naming the valid options, nothing is raised, and no command
\* is run and no process data produced before the answer.
C4_InvalidRequestRejectedFirst ==
    (QueryDone /\ InvalidRequest) =>
        /\ result.kind = "ok"
        /\ "error" \in DOMAIN result.value
        /\ "processes" \notin DOMAIN result.value
        /\ IF ValidCategory
           THEN {result.value.valid[i] : i \in 1..Len(result.value.valid)}
                    = AcceptedFields(Lower(call.process_type))
           ELSE {result.value.valid[i] : i \in 1..Len(result.value.valid)}
                    = {"cpu", "memory", "network"}
        /\ commands = <<>>
        /\ ran = {}

\* an unsupported sort field for a valid category, rejected
C4_Witness ==
    /\ QueryDone
    /\ call.process_type = "network"
    /\ call.sort_by = "resident_memory_kb"
    /\ result.value.error = "Invalid sort_by"
    /\ commands = <<>>

\* the sort fields of C5 as stated: memory and network accept the fields of
\* cpu and their own
ClaimedFields(category) ==
    CASE category = "cpu"     -> {"auto", "pid", "command", "cpu_percent"}
      [] category = "memory"  -> {"auto", "pid", "command", "cpu_percent",
                                  "memory_percent", "resident_memory_kb"}
      [] category = "network" -> {"auto", "pid", "command", "cpu_percent",
                                  "network_connections"}

\* C5 as stated: cpu accepts pid, command, cpu_percent; memory accepts those
\* fields plus memory_percent and resident_memory_kb; network accepts those
\* fields plus network_connections; every other pair is rejected before
\* sort_processes is reached.
C5_AsStated ==
    (QueryDone /\ ValidCategory) =>
        /\ QuerySucceeded <=> Lower(call.sort_by) \in ClaimedFields(Lower(call.process_type))
        /\ QueryFailed => "sort_processes" \notin ran

\* C5, amended: cpu accepts pid, command, cpu_percent; memory accepts pid,
\* command, memory_percent, resident_memory_kb; network accepts pid, command,
\* network_connections; each accepts auto; names are compared without regard
\* to letter case; every other pair is rejected with an error before
\* sort_processes is reached.
C5_AcceptedSortFields ==
    (QueryDone /\ ValidCategory) =>
        /\ QuerySucceeded <=> Lower(call.sort_by) \in AcceptedFields(Lower(call.process_type))
        /\ QueryFailed => "sort_processes" \notin ran /\ result.value.error = "Invalid sort_by"

\* cpu_percent asked of the memory category, and rejected
C5_Witness ==
    /\ QueryFailed
    /\ call.process_type = "memory"
    /\ call.sort_by = "cpu_percent"
    /\ "sort_processes" \notin ran

\* the default metric of each category
DefaultMetric(category) ==
    CASE category = "cpu"     -> "cpu_percent"
      [] category = "memory"  -> "memory_percent"
      [] category = "network" -> "network_connections"

\* the records of s are in the given order of the given field
InOrder(s, field, order) ==
    \A i \in 1..(Len(s) - 1) :
        IF order = "asc"
        THEN ~KeyLess(field, KeyOf(field, s[i + 1]), KeyOf(field, s[i]))
        ELSE ~KeyLess(field, KeyOf(field, s[i]), KeyOf(field, s[i + 1]))

\* C6 as stated: for every valid request sort_by = 'auto' is resolved to the
\* category's default metric, and the returned page is in the order of the
\* sort_by and sort_order echoed in the sorting metadata, also for
\* sort_by = 'auto' with sort_order = 'asc'.
C6_PageInEchoedOrder ==
    QuerySucceeded =>
        LET sorting == result.value.sorting IN
        /\ sorting.requested_sort_by = Lower(call.sort_by)
        /\ sorting.sort_by = IF Lower(call.sort_by) = "auto"
                             THEN DefaultMetric(Lower(call.process_type))
                             ELSE Lower(call.sort_by)
        /\ Lower(call.sort_order) \in {"asc", "desc"}
               => sorting.sort_order = Lower(call.sort_order)
        /\ InOrder(result.value.processes, sorting.sort_by, sorting.sort_order)

----------------------------------------------------------------------------
(* Properties of sort_processes *)

\* sort_processes has returned
SortDone == pc = "done" /\ call.op = "sort_processes"

IsProcessRecord(p) == "error" \notin DOMAIN p

\* the integer a PID stands for, a non-numeric or missing PID standing for
\* the least PID
ClaimedPid(p) ==
    IF "pid" \in DOMAIN p /\ p.pid # None /\ IsInt(p.pid) THEN ParseInt(p.pid) ELSE 0

Sorts(processes, sort_by) ==
    /\ processes # <<>>
    /\ "error" \notin DOMAIN processes[1]
    /\ sort_by = "pid" => \A i \in 1..Len(processes) : "pid" \in DOMAIN processes[i]
    /\ sort_by \in SortFields => ~CompareRaises(processes, sort_by)

KeysOf(s, sort_by) == [i \in 1..Len(s) |-> KeyOf(sort_by, s[i])]

\* the records of s whose key is k, in the order of s
WithKey(s, sort_by, k) == SelectSeq(s, LAMBDA p : KeyOf(sort_by, p) = k)

\* C8 as stated: for every list (here: of process records that have a PID
\* and keys that can be compared) and supported field the 'desc' result is exactly the reverse of the 'asc'
\* result, also when keys are equal.
C8_ExactReverse ==
    (/\ SortDone /\ call.sort_by \in SortFields /\ call.sort_order = "desc"
     /\ \A i \in 1..Len(procs) : IsProcessRecord(procs[i]) /\ "pid" \in DOMAIN procs[i]
     /\ ~CompareRaises(procs, call.sort_by)) =>
        result.value = Reverse(sort_processes(procs, call.process_type, call.sort_by, "asc"))

\* C8, amended: on a list that sort_processes sorts, the keys of the 'desc'
\* result are the keys of the 'asc' result reversed, records of equal key
\* keep their input order in both results, and so the two results are exact
\* reverses of each other when no two records have equal keys; a list that
\* is not sorted is returned unchanged for both orders.
C8_ReverseUpToTies ==
    (SortDone /\ call.sort_by \in SortFields /\ call.sort_order = "desc") =>
        LET asc  == sort_processes(procs, call.process_type, call.sort_by, "asc")
            desc == result.value
        IN  IF Sorts(procs, call.sort_by)
            THEN /\ KeysOf(desc, call.sort_by) = Reverse(KeysOf(asc, call.sort_by))
                 /\ \A i \in 1..Len(procs) :
                        /\ WithKey(desc, call.sort_by, KeyOf(call.sort_by, procs[i]))
                               = WithKey(procs, call.sort_by, KeyOf(call.sort_by, procs[i]))
                        /\ WithKey(asc, call.sort_by, KeyOf(call.sort_by, procs[i]))
                               = WithKey(procs, call.sort_by, KeyOf(call.sort_by, procs[i]))
                 /\ (\A i, j \in 1..Len(procs) :
                        i # j => KeyOf(call.sort_by, procs[i]) # KeyOf(call.sort_by, procs[j]))
                        => desc = Reverse(asc)
            ELSE desc = procs /\ asc = procs

\* two records of equal cpu_percent stay in input order under 'desc', where
\* three records of distinct keys come out reversed
C8_Witness ==
    /\ SortDone
    /\ call.sort_by = "cpu_percent"
    /\ call.sort_order = "desc"
    /\ Len(procs) = 3
    /\ \A i \in 1..3 : "cpu_percent" \in DOMAIN procs[i]
    /\ ~CompareRaises(procs, "cpu_percent")
    /\ KeyOf("cpu_percent", procs[1]) = KeyOf("cpu_percent", procs[3])
    /\ procs[1] # procs[3]
    /\ FloatLess(KeyOf("cpu_percent", procs[1]), KeyOf("cpu_percent", procs[2]))
    /\ result.value = <<procs[2], procs[1], procs[3]>>

----------------------------------------------------------------------------
(* Properties of the process parsers *)

CpuParsers == {"get_cpu_intensive_processes", "get_all_cpu_processes"}

MemParsers == {"get_memory_intensive_processes", "get_all_memory_processes"}

BoundedParsers == {"get_cpu_intensive_processes", "get_memory_intensive_processes"}

\* a process parser has returned
ParseDone == pc = "done" /\ call.op \in CpuParsers \cup MemParsers

\* the listing the parser read, and the sample lines of its kind
Listing == IF call.op \in CpuParsers THEN sys.cpu.stdout ELSE sys.mem.stdout

Samples == IF call.op \in CpuParsers THEN CpuSamples ELSE MemSamples

WellFormed(line) == \E i \in 1..Len(Samples) : Samples[i].text = line /\ Samples[i].wf

\* the record a well-formed line describes
Described(line) == Samples[CHOOSE i \in 1..Len(Samples) : Samples[i].text = line].rec

\* C9: for a header line followed by K well-formed data lines the full
\* parsers return exactly K records in input order, each with the line's
\* PID, its numeric metrics and the whole remainder of the line as command;
\* the bounded parsers return the first min(K, limit) of them.
C9_WellFormedListing ==
    (ParseDone /\ \A i \in 2..Len(Listing) : WellFormed(Listing[i])) =>
        LET K    == Len(Listing) - 1
            kept == IF call.op \in BoundedParsers THEN Min(K, call.limit) ELSE K
        IN  result = Ok([i \in 1..kept |-> Described(Listing[i + 1])])

\* three well-formed lines, one with a command of two words and one with a
\* command holding two spaces, parsed in full
C9_Witness ==
    /\ ParseDone
    /\ call.op = "get_all_cpu_processes"
    /\ Len(Listing) = 4
    /\ \A i \in 2..4 : WellFormed(Listing[i])
    /\ Len(result.value) = 3
    /\ result.value[1].command = CpuSamples[2].rec.command
    /\ result.value[2].command = CpuSamples[3].rec.command
    /\ result.value[3].pid = <<"1">>

\* the least number of fields of a data line
MinFields == IF call.op \in CpuParsers THEN 3 ELSE 4

\* a data line with fewer fields than the parser needs
ShortLine(line) == ~Blank(line) /\ Len(Split(line, -1)) < MinFields

\* s without its element j
Without(s, j) == SubSeq(s, 1, j - 1) \o SubSeq(s, j + 1, Len(s))

\* what the parser called returns for the listing text
Parsed(text) ==
    CASE call.op = "get_cpu_intensive_processes" ->
             get_cpu_intensive_processes(run_command(Exit0(text)), call.limit)
      [] call.op = "get_memory_intensive_processes" ->
             get_memory_intensive_processes(run_command(Exit0(text)), call.limit)
      [] call.op = "get_all_cpu_processes" ->
             Ok(get_all_cpu_processes(run_command(Exit0(text))))
      [] call.op = "get_all_memory_processes" ->
             Ok(get_all_memory_processes(run_command(Exit0(text))))

\* C10 as stated: a data line with fewer than the minimum number of fields
\* is dropped without affecting the other lines: every parser, bounded or
\* not, returns for an input what it returns for that input with the short
\* line removed (here for inputs whose other data lines are well formed).
C10_ShortLineDropped ==
    (ParseDone /\ \A i \in 2..Len(Listing) :
                      ShortLine(Listing[i]) \/ WellFormed(Listing[i])) =>
        \A j \in 2..Len(Listing) :
            ShortLine(Listing[j]) => result = Parsed(Without(Listing, j))

\* a data line with enough fields whose numeric columns do not parse
NonNumeric(line) ==
    /\ Len(Split(line, -1)) >= MinFields
    /\ IF call.op \in CpuParsers THEN ~CpuNumeric(Split(line, 2))
       ELSE ~MemNumeric(Split(line, 3))

\* the data lines the parser looks at: the first limit for a bounded parser
Window ==
    IF call.op \in BoundedParsers THEN PySlice(Listing, 1, call.limit + 1)
    ELSE Tail(Listing)

\* C11 as stated: in every process parser, bounded and unbounded, a data line
\* whose numeric columns do not parse is silently dropped: the parser does
\* not raise, and the records of the other, valid lines are returned.
C11_NonNumericLineDropped ==
    (ParseDone /\ \A i \in 2..Len(Listing) :
                      NonNumeric(Listing[i]) \/ WellFormed(Listing[i])) =>
        LET valid == SelectSeq(Window, WellFormed)
        IN  result = Ok([i \in 1..Len(valid) |-> Described(valid[i])])

----------------------------------------------------------------------------
(* Properties of the network listing parser *)

\* get_all_network_processes has returned
NetDone == pc = "done" /\ call.op = "get_all_network_processes"

\* the lines of the listing as run_command hands them over
NetOutput == run_command(sys.net)

\* the number of elements of s that satisfy Test
CountOf(s, Test(_)) == Len(SelectSeq(s, Test))

\* the result is the tally of the given lines: one record per command name,
\* with the number of its lines and the PID of its first line, in
\* non-increasing order of the number of lines
TallyOf(ls) ==
    LET fields == SplitAll(ls, -1)
        names  == {fields[i][1] : i \in 1..Len(fields)}
        recs   == result.value
    IN  /\ {recs[i].command : i \in 1..Len(recs)} = names
        /\ Len(recs) = Cardinality(names)
        /\ \A i \in 1..Len(recs) :
              /\ recs[i].network_connections
                     = CountOf(fields, LAMBDA f : f[1] = recs[i].command)
              /\ LET first == SelectSeq(fields, LAMBDA f : f[1] = recs[i].command)[1]
                 IN  Len(first) >= 2 => recs[i].pid = first[2]
        /\ \A i \in 1..(Len(recs) - 1) :
              recs[i].network_connections >= recs[i + 1].network_connections

\* C12 as stated: the listing has no header row, every output line
\* contributes to the tally: the result is the tally of all the lines of the
\* output.
C12_EveryLineTallied ==
    NetDone => TallyOf(SelectSeq(NetOutput, LAMBDA l : ~Blank(l)))

\* C12, amended: the first line of the output is skipped as the header, and
\* of the lines after it those with at least nine whitespace-separated
\* fields contribute: the result holds exactly one record per distinct
\* command name of the contributing lines, with the number of its
\* contributing lines (so the counts sum to the number of contributing
\* lines), the PID of the first of them, in non-increasing order of the
\* counts.
C12_DataLinesTallied ==
    NetDone =>
        LET data == SelectSeq(Tail(NetOutput), LAMBDA l : Len(Split(l, -1)) >= 9)
        IN  TallyOf(data)

\* a header, two connections of Chrome under different PIDs around one of
\* mDNS: Chrome comes first with 2 connections and its first PID
C12_Witness ==
    /\ NetDone
    /\ sys.net.stdout = <<NetHeader, NetSamples[2], NetSamples[3], NetSamples[1]>>
    /\ Len(result.value) = 2
    /\ result.value[1].network_connections = 2
    /\ result.value[1].pid = <<"2", "0", "2">>
    /\ result.value[2].network_connections = 1

----------------------------------------------------------------------------
(* Text and numbers of the overview commands *)

\* s.strip()
Strip(s) == RStrip(LStrip(s))

\* pat occurs in s at index i
MatchesAt(s, pat, i) ==
    i + Len(pat) - 1 <= Len(s) /\ \A k \in 1..Len(pat) : s[i + k - 1] = pat[k]

\* s.find(pat, i), counted from 1: the first index at or after i where pat
\* occurs, 0 if there is none
RECURSIVE IndexOf(_, _, _)
IndexOf(s, pat, i) ==
    IF i + Len(pat) - 1 > Len(s) THEN 0
    ELSE IF MatchesAt(s, pat, i) THEN i
    ELSE IndexOf(s, pat, i + 1)

\* pat in s
Contains(s, pat) == IndexOf(s, pat, 1) # 0

\* s.split(sep) from index i on, for a separator that is not empty
RECURSIVE SplitOnFrom(_, _, _)
SplitOnFrom(s, sep, i) ==
    LET j == IndexOf(s, sep, i) IN
    IF j = 0 THEN <<SubSeq(s, i, Len(s))>>
    ELSE <<SubSeq(s, i, j - 1)>> \o SplitOnFrom(s, sep, j + Len(sep))

SplitOn(s, sep) == SplitOnFrom(s, sep, 1)

\* s.count(pat): occurrences that do not overlap
RECURSIVE CountFrom(_, _, _)
CountFrom(s, pat, i) ==
    LET j == IndexOf(s, pat, i) IN
    IF j = 0 THEN 0 ELSE 1 + CountFrom(s, pat, j + Len(pat))

StartsWith(s, pat) == MatchesAt(s, pat, 1)

EndsWith(s, pat) == Len(pat) <= Len(s) /\ MatchesAt(s, pat, Len(s) - Len(pat) + 1)

\* s.isdigit()
IsDigitStr(s) == s # <<>> /\ \A i \in 1..Len(s) : IsDigit(s[i])

\* the text of a command's output as one string: its lines joined by '\n'
RECURSIVE Join(_)
Join(ls) == IF ls = <<>> THEN <<>>
            ELSE IF Len(ls) = 1 THEN ls[1]
            ELSE ls[1] \o <<"\n">> \o Join(Tail(ls))

\* float(s) and int(s) accept whitespace around the literal
IsFloatText(s) == IsFloat(Strip(s))

FloatOf(s) == ParseFloat(Strip(s))

IsIntText(s) == IsInt(Strip(s))

IntOf(s) == ParseInt(Strip(s))

\* the float of an integer
FloatOfInt(n) == <<n, 0>>

\* a - b on floats
FloatSub(a, b) ==
    LET e == IF a[2] > b[2] THEN a[2] ELSE b[2]
    IN  Normalize(<<a[1] * Pow10(e - a[2]) - b[1] * Pow10(e - b[2]), e>>)

\* a + b on floats
FloatAdd(a, b) ==
    LET e == IF a[2] > b[2] THEN a[2] ELSE b[2]
    IN  Normalize(<<a[1] * Pow10(e - a[2]) + b[1] * Pow10(e - b[2]), e>>)

\* a * k on a float and an integer
FloatTimes(a, k) == Normalize(<<a[1] * k, a[2]>>)

\* the integer nearest to n / d, for n >= 0 and d > 0 (the sample outputs
\* yield no tie, whose rounding depends on the binary value of the float)
RoundDiv(n, d) == (2 * n + d) \div (2 * d)

\* round(v, 2), for v >= 0
Round2(v) == IF v[2] <= 2 THEN v
             ELSE Normalize(<<RoundDiv(v[1], Pow10(v[2] - 2)), 2>>)

\* round((a / b) * 100, 2) for integers a >= 0 and b > 0, in steps that keep
\* the intermediate products small
PercentOf(a, b) ==
    LET whole == (a * 100) \div b
        rest  == (a * 100) % b
    IN  Normalize(<<whole * 100 + RoundDiv(rest * 100, b), 2>>)

\* a dict: a function from its keys; d[k] = v
EmptyDict == [k \in {} |-> 0]

Put(d, k, v) == (k :> v) @@ d

----------------------------------------------------------------------------
(* get_cpu_overview *)

TopCommand == "top -l 1 -n 0"

UptimeCommand == "uptime"

NcpuCommand == "sysctl -n hw.ncpu"

\* the key a part of the 'CPU usage:' line is stored under, "" for none
UsageKey(part) ==
    IF Contains(part, <<"u", "s", "e", "r">>) THEN "user_percent"
    ELSE IF Contains(part, <<"s", "y", "s">>) THEN "system_percent"
    ELSE IF Contains(part, <<"i", "d", "l", "e">>) THEN "idle_percent"
    ELSE ""

\* the loop over the parts of the 'CPU usage:' line: a percentage that is no
\* float raises ValueError, which ends the loop with what was stored so far
RECURSIVE ParseUsageParts(_, _)
ParseUsageParts(parts, cpu_info) ==
    IF parts = <<>> THEN cpu_info
    ELSE LET part == Strip(parts[1])
             key  == UsageKey(part)
             tok  == SplitOn(part, <<"%">>)[1]
         IN  IF key = "" THEN ParseUsageParts(Tail(parts), cpu_info)
             ELSE IF ~IsFloatText(tok) THEN cpu_info
             ELSE ParseUsageParts(Tail(parts), Put(cpu_info, key, FloatOf(tok)))

\* load_values[i] if there are that many, else 0.0
LoadAt(load_values, i) == IF Len(load_values) >= i THEN load_values[i] ELSE Zero

LoadAverage(load_values) ==
    ("1min" :> LoadAt(load_values, 1)) @@ ("5min" :> LoadAt(load_values, 2))
        @@ ("15min" :> LoadAt(load_values, 3))

\* the 'Load Avg:' line: every value must be a float, or nothing is stored
ParseLoadLine(line, cpu_info) ==
    LET load_part == Strip(SplitOn(line, <<"L", "o", "a", "d", " ", "A", "v", "g", ":">>)[2])
        xs        == SplitOn(load_part, <<",">>)
    IN  IF \E i \in 1..Len(xs) : ~IsFloatText(xs[i]) THEN cpu_info
        ELSE Put(cpu_info, "load_average",
                 LoadAverage([i \in 1..Len(xs) |-> FloatOf(xs[i])]))

\* the loop over the lines of the top output
RECURSIVE ParseTopLines(_, _)
ParseTopLines(lines, cpu_info) ==
    IF lines = <<>> THEN cpu_info
    ELSE LET line == lines[1] IN
         ParseTopLines(Tail(lines),
             IF Contains(line, <<"C", "P", "U", " ", "u", "s", "a", "g", "e", ":">>)
             THEN ParseUsageParts(SplitOn(Strip(SplitOn(line, <<":">>)[2]), <<",">>), cpu_info)
             ELSE IF Contains(line, <<"L", "o", "a", "d", " ", "A", "v", "g", ":">>)
             THEN ParseLoadLine(line, cpu_info)
             ELSE cpu_info)

\* the fallback on uptime: 'load average' without 'load average:' after it
\* is an IndexError, answered with zeros; a value that is no float counts 0.0
LoadFromUptime(uptime_output, cpu_info) ==
    IF ~Contains(uptime_output, <<"l", "o", "a", "d", " ", "a", "v", "e", "r", "a", "g", "e">>) THEN cpu_info
    ELSE LET pieces == SplitOn(uptime_output, <<"l", "o", "a", "d", " ", "a", "v", "e", "r", "a", "g", "e", ":">>) IN
         IF Len(pieces) < 2 THEN Put(cpu_info, "load_average", LoadAverage(<<Zero, Zero, Zero>>))
         ELSE LET xs == SplitOn(Strip(pieces[2]), <<",">>)
              IN  Put(cpu_info, "load_average",
                      LoadAverage([i \in 1..Len(xs) |->
                          IF IsFloatText(xs[i]) THEN FloatOf(xs[i]) ELSE Zero]))

\* int(cores) if cores.isdigit() else 'unknown'
CoresOf(cores) ==
    IF IsDigitStr(cores) THEN [type |-> "int", value |-> ParseInt(cores)]
    ELSE [type |-> "str", value |-> "unknown"]

\* get_cpu_overview on the machine env: the dict it returns and the commands
\* it ran
get_cpu_overview(env) ==
    LET parsed   == ParseTopLines(run_command(env.top), EmptyDict)
        fallback == "load_average" \notin DOMAIN parsed
        loaded   == IF fallback
                    THEN LoadFromUptime(Join(run_command(env.uptime)), parsed)
                    ELSE parsed
        counted  == Put(loaded, "cores", CoresOf(Join(run_command(env.ncpu))))
        cpu_info == IF "idle_percent" \in DOMAIN counted
                    THEN Put(counted, "total_usage_percent",
                             Round2(FloatSub(FloatOfInt(100), counted["idle_percent"])))
                    ELSE counted
    IN  [info |-> cpu_info,
         commands |-> <<TopCommand>> \o (IF fallback THEN <<UptimeCommand>> ELSE <<>>)
                          \o <<NcpuCommand>>]

----------------------------------------------------------------------------
(* get_memory_overview *)

VmStatCommand == "vm_stat"

MemsizeCommand == "sysctl -n hw.memsize"

\* page_size = 4096
PageSize == 4096

\* s.replace(' ', '_')
Underscored(s) == [i \in 1..Len(s) |-> IF s[i] = " " THEN "_" ELSE s[i]]

\* s.rstrip('.')
RECURSIVE RStripDots(_)
RStripDots(s) == IF s # <<>> /\ s[Len(s)] = "." THEN RStripDots(SubSeq(s, 1, Len(s) - 1))
                 ELSE s

\* the loop over the lines of the vm_stat output: a line 'key: value' whose
\* value is an integer stores value * page_size under the normalised key.
\* The keys come from the text, so the keys of memory_info are held as
\* characters.
RECURSIVE ParseVmStat(_, _)
ParseVmStat(lines, memory_info) ==
    IF lines = <<>> THEN memory_info
    ELSE LET parts == SplitOn(lines[1], <<":">>) IN
         ParseVmStat(Tail(lines),
             IF Len(parts) = 2 /\ IsIntText(RStripDots(Strip(parts[2])))
             THEN Put(memory_info, Underscored(LowerChars(Strip(parts[1]))),
                      IntOf(RStripDots(Strip(parts[2]))) * PageSize)
             ELSE memory_info)

\* the keys of memory_info that the function reads or writes
PagesFree == <<"p", "a", "g", "e", "s", "_", "f", "r", "e", "e">>

PagesSpeculative == <<"p", "a", "g", "e", "s", "_", "s", "p", "e", "c", "u", "l", "a", "t", "i", "v", "e">>

PagesActive == <<"p", "a", "g", "e", "s", "_", "a", "c", "t", "i", "v", "e">>

PagesInactive == <<"p", "a", "g", "e", "s", "_", "i", "n", "a", "c", "t", "i", "v", "e">>

PagesWiredDown == <<"p", "a", "g", "e", "s", "_", "w", "i", "r", "e", "d", "_", "d", "o", "w", "n">>

TotalPhysicalMemory == <<"t", "o", "t", "a", "l", "_", "p", "h", "y", "s", "i", "c", "a", "l", "_", "m", "e", "m", "o", "r", "y">>

FreeMemory == <<"f", "r", "e", "e", "_", "m", "e", "m", "o", "r", "y">>

UsedMemory == <<"u", "s", "e", "d", "_", "m", "e", "m", "o", "r", "y">>

UsedPercent == <<"u", "s", "e", "d", "_", "p", "e", "r", "c", "e", "n", "t">>

FreePercent == <<"f", "r", "e", "e", "_", "p", "e", "r", "c", "e", "n", "t">>

GbSuffix == <<"_", "g", "b">>

ErrorKey == <<"e", "r", "r", "o", "r">>

\* an error payload {"error": message}
ErrorPayload(message) == (ErrorKey :> message)

WithTotal(memory_info, total_mem) ==
    IF IsDigitStr(total_mem) THEN Put(memory_info, TotalPhysicalMemory, ParseInt(total_mem))
    ELSE memory_info

WithFree(m) ==
    IF PagesFree \in DOMAIN m /\ PagesSpeculative \in DOMAIN m
    THEN Put(m, FreeMemory, m[PagesFree] + m[PagesSpeculative])
    ELSE m

WithUsed(m) ==
    IF PagesActive \in DOMAIN m /\ PagesInactive \in DOMAIN m /\ PagesWiredDown \in DOMAIN m
    THEN Put(m, UsedMemory, m[PagesActive] + m[PagesInactive] + m[PagesWiredDown])
    ELSE m

\* the division by the total raises ZeroDivisionError when the total is 0
PercentRaises(m) ==
    /\ TotalPhysicalMemory \in DOMAIN m
    /\ m[TotalPhysicalMemory] = 0
    /\ UsedMemory \in DOMAIN m \/ FreeMemory \in DOMAIN m

WithUsedPercent(m) ==
    IF TotalPhysicalMemory \in DOMAIN m /\ UsedMemory \in DOMAIN m
    THEN Put(m, UsedPercent, PercentOf(m[UsedMemory], m[TotalPhysicalMemory]))
    ELSE m

WithFreePercent(m) ==
    IF TotalPhysicalMemory \in DOMAIN m /\ FreeMemory \in DOMAIN m
    THEN Put(m, FreePercent, PercentOf(m[FreeMemory], m[TotalPhysicalMemory]))
    ELSE m

\* round(bytes / 1024**3, 2)
GbOf(bytes) == Normalize(<<(bytes * 100 + 536870912) \div 1073741824, 2>>)

WithGb(m, key) == IF key \in DOMAIN m THEN Put(m, key \o GbSuffix, GbOf(m[key])) ELSE m

\* get_memory_overview on the machine env: the dict it returns, or the
\* error payload when an exception reached the outer handler
get_memory_overview(env) ==
    LET parsed  == ParseVmStat(run_command(env.vm_stat), EmptyDict)
        derived == WithUsed(WithFree(WithTotal(parsed, Join(run_command(env.memsize)))))
        memory_info ==
            IF PercentRaises(derived)
            THEN ErrorPayload("Could not get memory overview: division by zero")
            ELSE WithGb(WithGb(WithGb(WithFreePercent(WithUsedPercent(derived)),
                     TotalPhysicalMemory), UsedMemory), FreeMemory)
    IN  [info |-> memory_info, commands |-> <<VmStatCommand, MemsizeCommand>>]

----------------------------------------------------------------------------
(* get_disk_overview *)

DfCommand == "df -h"

\* s[:-k]
DropLast(s, k) == SubSeq(s, 1, Len(s) - k)

\* what a size of df adds to a total.  The code adds bytes; the model holds
\* the totals in GiB, the unit the summary reports, 1024**3 times less.  A
\* size with another suffix, or whose number is no float, adds nothing.
SizeInGiB(size_str) ==
    LET number == IF EndsWith(size_str, <<"G", "i">>) \/ EndsWith(size_str, <<"T", "i">>)
                  THEN DropLast(size_str, 2)
                  ELSE DropLast(size_str, 1)
        factor == IF EndsWith(size_str, <<"G", "i">>) THEN 1
                  ELSE IF EndsWith(size_str, <<"T", "i">>) THEN 1024
                  ELSE IF EndsWith(size_str, <<"G">>) THEN 1
                  ELSE IF EndsWith(size_str, <<"T">>) THEN 1024
                  ELSE 0
    IN  IF factor = 0 \/ ~IsFloatText(number) THEN Zero
        ELSE FloatTimes(FloatOf(number), factor)

\* the df lines that describe a filesystem: at least 8 fields, the first
\* starting with /dev/
DfFields(lines) ==
    SelectSeq(SplitAll(PySlice(lines, 1, Len(lines)), -1),
              LAMBDA parts : Len(parts) >= 8 /\ StartsWith(parts[1], <<"/", "d", "e", "v", "/">>))

Filesystem(parts) ==
    [filesystem |-> parts[1], size |-> parts[2], used |-> parts[3],
     available |-> parts[4], use_percent |-> parts[5],
     mounted_on |-> IF Len(parts) > 8 THEN parts[9] ELSE parts[Len(parts)]]

\* the sum of the sizes in column k of the filesystem lines
RECURSIVE SumSizes(_, _)
SumSizes(fields, k) ==
    IF fields = <<>> THEN Zero
    ELSE FloatAdd(SizeInGiB(fields[1][k]), SumSizes(Tail(fields), k))

\* round((total_used / total_size) * 100, 2)
UsagePercent(total_used, total_size) ==
    LET e == IF total_used[2] > total_size[2] THEN total_used[2] ELSE total_size[2]
    IN  PercentOf(total_used[1] * Pow10(e - total_used[2]),
                  total_size[1] * Pow10(e - total_size[2]))

DiskSummary(total_size, total_used) ==
    IF total_size[1] > 0
    THEN [total_size_gb |-> Round2(total_size),
          total_used_gb |-> Round2(total_used),
          total_available_gb |-> Round2(FloatSub(total_size, total_used)),
          overall_usage_percent |-> UsagePercent(total_used, total_size)]
    ELSE EmptyDict

get_disk_overview(env) ==
    LET fields == DfFields(run_command(env.df))
    IN  [info |-> [filesystems |-> [i \in 1..Len(fields) |-> Filesystem(fields[i])],
                   summary |-> DiskSummary(SumSizes(fields, 2), SumSizes(fields, 3))],
         commands |-> <<DfCommand>>]

----------------------------------------------------------------------------
(* analyze_system_performance *)

\* the analysis while the rules run: bottlenecks, recommendations and score
NewAnalysis == [bottlenecks |-> <<>>, recommendations |-> <<>>, score |-> 100]

\* a rule fires: its recommendation, its deduction and, for a bottleneck
\* rule, its bottleneck
Fire(a, bottleneck, recommendation, deduction) ==
    [bottlenecks |-> IF bottleneck = "" THEN a.bottlenecks
                     ELSE Append(a.bottlenecks, bottleneck),
     recommendations |-> Append(a.recommendations, recommendation),
     score |-> a.score - deduction]

\* v > n for a float v and an integer n
Above(v, n) == FloatLess(FloatOfInt(n), v)

CpuRule(a, cpu_info) ==
    IF "total_usage_percent" \notin DOMAIN cpu_info THEN a
    ELSE IF Above(cpu_info["total_usage_percent"], 80)
    THEN Fire(a, "High CPU usage detected",
              "Consider closing unnecessary applications or upgrading CPU", 25)
    ELSE IF Above(cpu_info["total_usage_percent"], 60)
    THEN Fire(a, "", "Monitor CPU-intensive processes", 10)
    ELSE a

\* the load rule is evaluated: there is a load average and an integer number
\* of cores
LoadKnown(cpu_info) ==
    /\ "load_average" \in DOMAIN cpu_info
    /\ "cores" \in DOMAIN cpu_info
    /\ cpu_info["cores"].type = "int"

\* load_average['1min'] / cores raises ZeroDivisionError
LoadRaises(cpu_info) == LoadKnown(cpu_info) /\ cpu_info["cores"].value = 0

\* load_average['1min'] / cores > 1.0, for cores > 0
LoadRule(a, cpu_info) ==
    IF LoadKnown(cpu_info)
       /\ Above(cpu_info["load_average"]["1min"], cpu_info["cores"].value)
    THEN Fire(a, "System load exceeds available CPU cores",
              "Reduce concurrent processes or upgrade hardware", 20)
    ELSE a

MemoryRule(a, memory_info) ==
    IF UsedPercent \notin DOMAIN memory_info THEN a
    ELSE IF Above(memory_info[UsedPercent], 85)
    THEN Fire(a, "High memory usage detected",
              "Close memory-intensive applications or add more RAM", 20)
    ELSE IF Above(memory_info[UsedPercent], 70)
    THEN Fire(a, "", "Monitor memory usage and consider upgrading RAM", 5)
    ELSE a

\* a slip: a summary without a usage taken as a full disk
DiskUsageDefaultFull(disk_info) ==
    IF "overall_usage_percent" \in DOMAIN disk_info.summary
    THEN disk_info.summary["overall_usage_percent"]
    ELSE FloatOfInt(100)

\* disk_info['summary'].get('overall_usage_percent', 0)
DiskUsage(disk_info) ==
    IF "overall_usage_percent" \in DOMAIN disk_info.summary
    THEN disk_info.summary["overall_usage_percent"]
    ELSE Zero

DiskRule(a, disk_info) ==
    IF "summary" \notin DOMAIN disk_info THEN a
    ELSE IF Above(DiskUsage(disk_info), 90)
    THEN Fire(a, "Disk space critically low", "Free up disk space immediately", 30)
    ELSE IF Above(DiskUsage(disk_info), 80)
    THEN Fire(a, "", "Consider cleaning up files or upgrading storage", 10)
    ELSE a

\* a slip: the bands one step too high
StatusOfStrict(score) ==
    IF score > 80 THEN "excellent"
    ELSE IF score > 60 THEN "good"
    ELSE IF score > 40 THEN "fair"
    ELSE "poor"

StatusOf(score) ==
    IF score >= 80 THEN "excellent"
    ELSE IF score >= 60 THEN "good"
    ELSE IF score >= 40 THEN "fair"
    ELSE "poor"

\* the analysis as returned: status, clamped score, and the general
\* recommendation when no rule gave one
Analysis(a) ==
    [status |-> StatusOf(a.score),
     bottlenecks |-> a.bottlenecks,
     recommendations |-> IF a.recommendations = <<>>
                         THEN <<"System performance appears optimal">>
                         ELSE a.recommendations,
     performance_score |-> IF a.score > 0 THEN a.score ELSE 0]

\* the rules applied in the order of the code to three snapshots
Analyze(cpu_info, memory_info, disk_info) ==
    IF LoadRaises(cpu_info)
    THEN [error |-> "Could not analyze system performance: float division by zero"]
    ELSE Analysis(DiskRule(MemoryRule(LoadRule(CpuRule(NewAnalysis, cpu_info), cpu_info),
                                      memory_info), disk_info))

\* analyze_system_performance on the machine env: it takes its own snapshots
analyze_system_performance(env) ==
    CHOOSE analysis \in
        {[info |-> Analyze(cpu.info, memory.info, disk.info),
          commands |-> cpu.commands \o memory.commands \o disk.commands] :
            cpu \in {get_cpu_overview(env)}, memory \in {get_memory_overview(env)},
            disk \in {get_disk_overview(env)}} : TRUE

----------------------------------------------------------------------------
(* What the overview commands print *)

TimedOut == [outcome |-> "timeout", stdout |-> <<>>]

NotSpawned == [outcome |-> "spawn_failure", stdout |-> <<>>]

\* top -l 1 -n 0: CPU usage 15, 70, 85, 80 and 60 per cent with several
\* loads; no usage line; no load line and three decimals; values that are
\* no numbers; no output at all
TopSamples == <<
    Exit0(<< <<"P", "r", "o", "c", "e", "s", "s", "e", "s", ":", " ", "3", " ", "t", "o", "t", "a", "l">>,
       <<"L", "o", "a", "d", " ", "A", "v", "g", ":", " ", "1", ".", "5", ",", " ", "1", ".", "2", ",", " ", "1", ".", "0", " ">>,
       <<"C", "P", "U", " ", "u", "s", "a", "g", "e", ":", " ", "1", "0", ".", "0", "%", " ", "u", "s", "e", "r", ",", " ", "5", ".", "0", "%", " ", "s", "y", "s", ",", " ", "8", "5", ".", "0", "%", " ", "i", "d", "l", "e", " ">>,
       <<>> >>),
    Exit0(<< <<"L", "o", "a", "d", " ", "A", "v", "g", ":", " ", "8", ".", "0", "1", ",", " ", "7", ".", "5", ",", " ", "7", ".", "0">>,
       <<"C", "P", "U", " ", "u", "s", "a", "g", "e", ":", " ", "5", "0", ".", "0", "%", " ", "u", "s", "e", "r", ",", " ", "2", "0", ".", "0", "%", " ", "s", "y", "s", ",", " ", "3", "0", ".", "0", "%", " ", "i", "d", "l", "e">> >>),
    Exit0(<< <<"L", "o", "a", "d", " ", "A", "v", "g", ":", " ", "7", ".", "9", ",", " ", "7", ".", "5", ",", " ", "7", ".", "0">>,
       <<"C", "P", "U", " ", "u", "s", "a", "g", "e", ":", " ", "6", "0", ".", "0", "%", " ", "u", "s", "e", "r", ",", " ", "2", "5", ".", "0", "%", " ", "s", "y", "s", ",", " ", "1", "5", ".", "0", "%", " ", "i", "d", "l", "e">> >>),
    Exit0(<< <<"L", "o", "a", "d", " ", "A", "v", "g", ":", " ", "8", ".", "0", ",", " ", "7", ".", "5">>,
       <<"C", "P", "U", " ", "u", "s", "a", "g", "e", ":", " ", "7", "0", ".", "0", "%", " ", "u", "s", "e", "r", ",", " ", "1", "0", ".", "0", "%", " ", "s", "y", "s", ",", " ", "2", "0", ".", "0", "%", " ", "i", "d", "l", "e">> >>),
    Exit0(<< <<"C", "P", "U", " ", "u", "s", "a", "g", "e", ":", " ", "4", "0", "%", " ", "u", "s", "e", "r", ",", " ", "2", "0", "%", " ", "s", "y", "s", ",", " ", "4", "0", "%", " ", "i", "d", "l", "e">>,
       <<"L", "o", "a", "d", " ", "A", "v", "g", ":", " ", "9">> >>),
    Exit0(<< <<"P", "r", "o", "c", "e", "s", "s", "e", "s", ":", " ", "3", " ", "t", "o", "t", "a", "l">>,
       <<"L", "o", "a", "d", " ", "A", "v", "g", ":", " ", "2", ".", "5", ",", " ", "2", ".", "0", ",", " ", "1", ".", "0">> >>),
    Exit0(<< <<"C", "P", "U", " ", "u", "s", "a", "g", "e", ":", " ", "1", "0", ".", "0", "%", " ", "u", "s", "e", "r", ",", " ", "8", ".", "0", "0", "6", "%", " ", "s", "y", "s", ",", " ", "8", "1", ".", "9", "9", "4", "%", " ", "i", "d", "l", "e">> >>),
    Exit0(<< <<"L", "o", "a", "d", " ", "A", "v", "g", ":", " ", "1", ".", "5", ",", " ", "x">>,
       <<"C", "P", "U", " ", "u", "s", "a", "g", "e", ":", " ", "1", "0", ".", "0", "%", " ", "u", "s", "e", "r", ",", " ", "n", "/", "a", " ", "s", "y", "s", ",", " ", "5", ".", "0", "%", " ", "i", "d", "l", "e">> >>),
    TimedOut >>

\* uptime: as macOS prints it, as Linux prints it, and not run
UptimeSamples == <<
    Exit0(<< <<"1", "0", ":", "0", "0", " ", " ", "u", "p", " ", "1", " ", "d", "a", "y", ",", " ", "2", " ", "u", "s", "e", "r", "s", ",", " ", "l", "o", "a", "d", " ", "a", "v", "e", "r", "a", "g", "e", "s", ":", " ", "2", ".", "1", "0", " ", "2", ".", "0", "3", " ", "1", ".", "9", "5">> >>),
    Exit0(<< <<"1", "0", ":", "0", "0", " ", "u", "p", " ", "1", " ", "d", "a", "y", ",", " ", "2", " ", "u", "s", "e", "r", "s", ",", " ", "l", "o", "a", "d", " ", "a", "v", "e", "r", "a", "g", "e", ":", " ", "9", ".", "5", ",", " ", "x", ",", " ", "0", ".", "3">> >>),
    NotSpawned >>

\* sysctl -n hw.ncpu
NcpuSamples == <<
    Exit0(<< <<"8">>,
       <<>> >>),
    Exit0(<< <<"1">> >>),
    Exit0(<< <<"0">> >>),
    [outcome |-> "exit1", stdout |-> << <<>> >>] >>

\* vm_stat: 90, 85 and 70 of 100 pages used; no wired pages reported; not run
VmStatSamples == <<
    Exit0(<< <<"M", "a", "c", "h", " ", "V", "i", "r", "t", "u", "a", "l", " ", "M", "e", "m", "o", "r", "y", " ", "S", "t", "a", "t", "i", "s", "t", "i", "c", "s", ":", " ", "(", "p", "a", "g", "e", " ", "s", "i", "z", "e", " ", "o", "f", " ", "4", "0", "9", "6", " ", "b", "y", "t", "e", "s", ")">>,
       <<"P", "a", "g", "e", "s", " ", "f", "r", "e", "e", ":", " ", " ", " ", " ", " ", " ", " ", "6", ".">>,
       <<"P", "a", "g", "e", "s", " ", "a", "c", "t", "i", "v", "e", ":", " ", " ", " ", " ", " ", "4", "0", ".">>,
       <<"P", "a", "g", "e", "s", " ", "i", "n", "a", "c", "t", "i", "v", "e", ":", " ", " ", " ", "2", "0", ".">>,
       <<"P", "a", "g", "e", "s", " ", "s", "p", "e", "c", "u", "l", "a", "t", "i", "v", "e", ":", " ", "4", ".">>,
       <<"P", "a", "g", "e", "s", " ", "w", "i", "r", "e", "d", " ", "d", "o", "w", "n", ":", " ", "3", "0", ".">>,
       <<>> >>),
    Exit0(<< <<"P", "a", "g", "e", "s", " ", "f", "r", "e", "e", ":", " ", "1", "0", ".">>,
       <<"P", "a", "g", "e", "s", " ", "a", "c", "t", "i", "v", "e", ":", " ", "4", "0", ".">>,
       <<"P", "a", "g", "e", "s", " ", "i", "n", "a", "c", "t", "i", "v", "e", ":", " ", "2", "0", ".">>,
       <<"P", "a", "g", "e", "s", " ", "s", "p", "e", "c", "u", "l", "a", "t", "i", "v", "e", ":", " ", "5", ".">>,
       <<"P", "a", "g", "e", "s", " ", "w", "i", "r", "e", "d", " ", "d", "o", "w", "n", ":", " ", "2", "5", ".">> >>),
    Exit0(<< <<"P", "a", "g", "e", "s", " ", "f", "r", "e", "e", ":", " ", "2", "5", ".">>,
       <<"P", "a", "g", "e", "s", " ", "a", "c", "t", "i", "v", "e", ":", " ", "3", "0", ".">>,
       <<"P", "a", "g", "e", "s", " ", "i", "n", "a", "c", "t", "i", "v", "e", ":", " ", "2", "0", ".">>,
       <<"P", "a", "g", "e", "s", " ", "w", "i", "r", "e", "d", " ", "d", "o", "w", "n", ":", " ", "2", "0", ".">>,
       <<"P", "a", "g", "e", "s", " ", "p", "u", "r", "g", "e", "a", "b", "l", "e", ":", " ", "n", "/", "a">> >>),
    Exit0(<< <<"P", "a", "g", "e", "s", " ", "f", "r", "e", "e", ":", " ", "1", "0", ".">>,
       <<"P", "a", "g", "e", "s", " ", "s", "p", "e", "c", "u", "l", "a", "t", "i", "v", "e", ":", " ", "5", ".">>,
       <<"P", "a", "g", "e", "s", " ", "a", "c", "t", "i", "v", "e", ":", " ", "4", "0", ".">>,
       <<"P", "a", "g", "e", "s", " ", "i", "n", "a", "c", "t", "i", "v", "e", ":", " ", "2", "0", ".">> >>),
    TimedOut >>

\* sysctl -n hw.memsize: 100 pages, nothing, not run
MemsizeSamples == <<
    Exit0(<< <<"4", "0", "9", "6", "0", "0">>,
       <<>> >>),
    Exit0(<< <<"0">> >>),
    NotSpawned >>

DfHeader == <<"F", "i", "l", "e", "s", "y", "s", "t", "e", "m", " ", "S", "i", "z", "e", " ", "U", "s", "e", "d", " ", "A", "v", "a", "i", "l", " ", "C", "a", "p", "a", "c", "i", "t", "y", " ", "i", "u", "s", "e", "d", " ", "i", "f", "r", "e", "e", " ", "%", "i", "u", "s", "e", "d", " ", "M", "o", "u", "n", "t", "e", "d", " ", "o", "n">>

\* df -h: 95, 90 and 80 per cent used; two disks in Ti and G and a pseudo
\* filesystem; a disk sized in Mi; not run
DfSamples == <<
    Exit0(<<DfHeader>> \o << <<"/", "d", "e", "v", "/", "d", "i", "s", "k", "1", "s", "1", " ", "1", "0", "0", "G", "i", " ", "9", "5", "G", "i", " ", "5", "G", "i", " ", "9", "5", "%", " ", "1", " ", "2", " ", "0", "%", " ", "/">>,
       <<>> >>),
    Exit0(<<DfHeader>> \o << <<"/", "d", "e", "v", "/", "d", "i", "s", "k", "1", "s", "1", " ", " ", "1", "0", "0", "G", "i", " ", " ", "9", "0", "G", "i", " ", " ", "1", "0", "G", "i", " ", " ", "9", "0", "%", " ", " ", "1", " ", " ", "2", " ", " ", "0", "%", " ", " ", "/">> >>),
    Exit0(<<DfHeader>> \o << <<"/", "d", "e", "v", "/", "d", "i", "s", "k", "1", "s", "1", " ", "1", "0", "0", "G", "i", " ", "8", "0", "G", "i", " ", "2", "0", "G", "i", " ", "8", "0", "%", " ", "1", " ", "2", " ", "0", "%", " ", "/">> >>),
    Exit0(<<DfHeader>> \o << <<"/", "d", "e", "v", "/", "d", "i", "s", "k", "1", "s", "1", " ", "1", "T", "i", " ", "0", ".", "5", "T", "i", " ", "0", ".", "5", "T", "i", " ", "5", "0", "%", " ", "1", " ", "2", " ", "0", "%", " ", "/">>,
       <<"d", "e", "v", "f", "s", " ", "2", "0", "0", "K", "i", " ", "2", "0", "0", "K", "i", " ", "0", "B", "i", " ", "1", "0", "0", "%", " ", "1", " ", "0", " ", "1", "0", "0", "%", " ", "/", "d", "e", "v">>,
       <<"/", "d", "e", "v", "/", "d", "i", "s", "k", "2", " ", "1", "0", "0", "G", " ", "5", "0", ".", "5", "G", " ", "4", "9", ".", "5", "G", " ", "5", "1", "%", " ", "1", " ", "2", " ", "/", "V", "o", "l", "u", "m", "e", "s", "/", "X">> >>),
    Exit0(<<DfHeader>> \o << <<"/", "d", "e", "v", "/", "d", "i", "s", "k", "1", "s", "1", " ", "5", "0", "0", "M", "i", " ", "4", "9", "9", "M", "i", " ", "1", "M", "i", " ", "1", "0", "0", "%", " ", "1", " ", "2", " ", "0", "%", " ", "/">> >>),
    TimedOut >>

\* the elements of a sequence
Range(s) == {s[i] : i \in 1..Len(s)}

\* the machines the snapshots are taken on: every combination of the sample
\* outputs of the six commands
Machines ==
    [top : Range(TopSamples), uptime : Range(UptimeSamples), ncpu : Range(NcpuSamples),
     vm_stat : Range(VmStatSamples), memsize : Range(MemsizeSamples), df : Range(DfSamples)]

----------------------------------------------------------------------------
(* analyze_system_performance on its own, over every machine *)

InitAnalyze ==
    /\ sys \in Machines
    /\ procs = <<>>
    /\ Idle

AnalyzeSystemPerformance ==
    /\ pc = "idle"
    /\ \E r \in {analyze_system_performance(sys)} :
          /\ result' = Ok(r.info)
          /\ commands' = r.commands
    /\ call' = [op |-> "analyze_system_performance"]
    /\ ran' = {"get_cpu_overview", "get_memory_overview", "get_disk_overview", "run_command"}
    /\ pc' = "done"
    /\ UNCHANGED <<sys, procs>>

NextAnalyze == AnalyzeSystemPerformance \/ Return

SpecAnalyze == InitAnalyze /\ [][NextAnalyze]_vars

----------------------------------------------------------------------------
(* Properties of analyze_system_performance *)

\* analyze_system_performance has returned
AnalyzeDone == pc = "done" /\ call.op = "analyze_system_performance"

\* it returned an analysis, not an error payload
Analyzed == AnalyzeDone /\ result.kind = "ok" /\ "status" \in DOMAIN result.value

\* the snapshots of the machine
Snapshots ==
    [cpu    |-> get_cpu_overview(sys).info,
     memory |-> get_memory_overview(sys).info,
     disk   |-> get_disk_overview(sys).info]

\* the metrics of the snapshots s, where present
HasCpuUsage(s) == "total_usage_percent" \in DOMAIN s.cpu

HasLoad(s) == /\ "load_average" \in DOMAIN s.cpu
              /\ s.cpu["cores"].type = "int"

HasMemoryUsage(s) == UsedPercent \in DOMAIN s.memory

HasDiskUsage(s) == /\ "summary" \in DOMAIN s.disk
                   /\ "overall_usage_percent" \in DOMAIN s.disk.summary

Cores(s) == s.cpu["cores"].value

\* the deduction of each metric's rules, 0 for an absent metric
CpuDeduction(s) ==
    IF ~HasCpuUsage(s) THEN 0
    ELSE IF Above(s.cpu["total_usage_percent"], 80) THEN 25
    ELSE IF Above(s.cpu["total_usage_percent"], 60) THEN 10
    ELSE 0

LoadDeduction(s) ==
    IF HasLoad(s) /\ Cores(s) > 0 /\ Above(s.cpu["load_average"]["1min"], Cores(s))
    THEN 20 ELSE 0

MemoryDeduction(s) ==
    IF ~HasMemoryUsage(s) THEN 0
    ELSE IF Above(s.memory[UsedPercent], 85) THEN 20
    ELSE IF Above(s.memory[UsedPercent], 70) THEN 5
    ELSE 0

DiskDeduction(s) ==
    IF ~HasDiskUsage(s) THEN 0
    ELSE IF Above(s.disk.summary["overall_usage_percent"], 90) THEN 30
    ELSE IF Above(s.disk.summary["overall_usage_percent"], 80) THEN 10
    ELSE 0

\* the number of bottleneck rules that fired
BottleneckRules(s) ==
    Cardinality({d \in {<<"cpu", CpuDeduction(s), 25>>, <<"load", LoadDeduction(s), 20>>,
                        <<"memory", MemoryDeduction(s), 20>>,
                        <<"disk", DiskDeduction(s), 30>>} :
                     d[2] = d[3]})

\* C13: performance_score = max(0, 100 - the deductions of the rules that
\* hold): CPU usage > 80 (25) or else > 60 (10); load per core > 1.0 (20);
\* memory used > 85 (20) or else > 70 (5); disk used > 90 (30) or else > 80
\* (10); there is one bottleneck per bottleneck rule that fired; the status
\* is excellent, good, fair, poor for a score >= 80, >= 60, >= 40, less.
C13_ScoreOfRules ==
    Analyzed =>
        \A s \in {Snapshots} :
            LET score == 100 - (CpuDeduction(s) + LoadDeduction(s)
                                    + MemoryDeduction(s) + DiskDeduction(s))
            IN  /\ result.value.performance_score = Max(0, score)
                /\ Len(result.value.bottlenecks) = BottleneckRules(s)
                /\ result.value.status =
                       IF score >= 80 THEN "excellent"
                       ELSE IF score >= 60 THEN "good"
                       ELSE IF score >= 40 THEN "fair"
                       ELSE "poor"

\* CPU 85, memory 90, disk 95 and a load of 7.9 on 8 cores: score 25, poor,
\* three bottlenecks
C13_Witness ==
    /\ Analyzed
    /\ result.value.performance_score = 25
    /\ result.value.status = "poor"
    /\ Len(result.value.bottlenecks) = 3
    /\ \E s \in {Snapshots} :
          /\ HasCpuUsage(s) /\ s.cpu["total_usage_percent"] = <<85, 0>>
          /\ HasLoad(s) /\ Cores(s) = 8
          /\ HasMemoryUsage(s) /\ s.memory[UsedPercent] = <<90, 0>>
          /\ HasDiskUsage(s) /\ s.disk.summary["overall_usage_percent"] = <<95, 0>>

\* what the rules of a metric write into the analysis
MessagesOf(metric) ==
    CASE metric = "cpu" ->
             {"High CPU usage detected",
              "Consider closing unnecessary applications or upgrading CPU",
              "Monitor CPU-intensive processes"}
      [] metric = "load" ->
             {"System load exceeds available CPU cores",
              "Reduce concurrent processes or upgrade hardware"}
      [] metric = "memory" ->
             {"High memory usage detected",
              "Close memory-intensive applications or add more RAM",
              "Monitor memory usage and consider upgrading RAM"}
      [] metric = "disk" ->
             {"Disk space critically low", "Free up disk space immediately",
              "Consider cleaning up files or upgrading storage"}

Absent(metric, s) ==
    CASE metric = "cpu"    -> ~HasCpuUsage(s)
      [] metric = "load"   -> ~HasLoad(s)
      [] metric = "memory" -> ~HasMemoryUsage(s)
      [] metric = "disk"   -> ~HasDiskUsage(s)

DeductionOf(metric, s) ==
    CASE metric = "cpu"    -> CpuDeduction(s)
      [] metric = "load"   -> LoadDeduction(s)
      [] metric = "memory" -> MemoryDeduction(s)
      [] metric = "disk"   -> DiskDeduction(s)

Metrics == {"cpu", "load", "memory", "disk"}

\* what the rules of the metrics that are present deduct
PresentDeductions(s) ==
    (IF Absent("cpu", s) THEN 0 ELSE CpuDeduction(s))
        + (IF Absent("load", s) THEN 0 ELSE LoadDeduction(s))
        + (IF Absent("memory", s) THEN 0 ELSE MemoryDeduction(s))
        + (IF Absent("disk", s) THEN 0 ELSE DiskDeduction(s))

\* C14: a metric absent from the snapshot (no total CPU usage; no load
\* average or no integer core count; no memory used percentage; no disk
\* usage summary; an error payload) has its rules skipped: no error, none of
\* its bottlenecks or recommendations, no deduction, and the score is what
\* the rules of the metrics that are present deduct.  (A core count of 0 is
\* an integer core count, not an absent one.)
C14_AbsentMetricSkipped ==
    AnalyzeDone =>
        \A s \in {Snapshots} :
            (~(HasLoad(s) /\ Cores(s) = 0) /\ \E m \in Metrics : Absent(m, s)) =>
                /\ Analyzed
                /\ \A m \in Metrics : Absent(m, s) =>
                       /\ DeductionOf(m, s) = 0
                       /\ \A i \in 1..Len(result.value.bottlenecks) :
                              result.value.bottlenecks[i] \notin MessagesOf(m)
                       /\ \A i \in 1..Len(result.value.recommendations) :
                              result.value.recommendations[i] \notin MessagesOf(m)
                /\ result.value.performance_score = 100 - PresentDeductions(s)

\* vm_stat timed out, so there is no memory data at all, while CPU usage is
\* 85 and the disk is 95 per cent full: score 45 with the two bottlenecks
C14_Witness ==
    /\ Analyzed
    /\ sys.vm_stat = TimedOut
    /\ result.value.bottlenecks = <<"High CPU usage detected", "Disk space critically low">>
    /\ result.value.performance_score = 45
    /\ \E s \in {Snapshots} :
          /\ s.memory = EmptyDict
          /\ Absent("memory", s)
          /\ HasLoad(s) /\ Cores(s) = 8

\* C15 as stated: for every combination of snapshots the overview functions
\* can produce, a core count of 0, a total memory of 0 and error payloads
\* included, the result is an analysis whose status is excellent, good, fair
\* or poor, whose score is an integer within 0..100, and whose bottlenecks
\* and recommendations are lists.
C15_AlwaysAnAnalysis ==
    AnalyzeDone =>
        /\ result.kind = "ok"
        /\ DOMAIN result.value = {"status", "bottlenecks", "recommendations", "performance_score"}
        /\ result.value.status \in {"excellent", "good", "fair", "poor"}
        /\ result.value.performance_score \in 0..100
        /\ DOMAIN result.value.bottlenecks = 1..Len(result.value.bottlenecks)
        /\ DOMAIN result.value.recommendations = 1..Len(result.value.recommendations)

----------------------------------------------------------------------------
(* get_network_overview and get_system_info *)

NetstatInterfacesCommand == "netstat -i"

NetstatConnectionsCommand == "netstat -an"

SwVersCommand == "sw_vers -productVersion"

\* the loop over the lines of netstat -i after the header: a line of at
\* least 10 fields that does not start with 'Name' describes an interface; a
\* later line of the same name replaces an earlier one
RECURSIVE Interfaces(_, _)
Interfaces(fields, acc) ==
    IF fields = <<>> THEN acc
    ELSE LET parts == fields[1] IN
         Interfaces(Tail(fields),
             IF Len(parts) >= 10 /\ ~StartsWith(parts[1], <<"N", "a", "m", "e">>)
             THEN Put(acc, parts[1],
                      [packets_in |-> parts[5], errors_in |-> parts[6],
                       packets_out |-> parts[8], errors_out |-> parts[9],
                       collisions |-> parts[10]])
             ELSE acc)

\* the counts of the connection lines by protocol
Connections(netstat_connections) ==
    LET tcp_count == CountFrom(netstat_connections, <<"t", "c", "p", "4">>, 1)
                         + CountFrom(netstat_connections, <<"t", "c", "p", "6">>, 1)
        udp_count == CountFrom(netstat_connections, <<"u", "d", "p", "4">>, 1)
                         + CountFrom(netstat_connections, <<"u", "d", "p", "6">>, 1)
    IN  [tcp_connections |-> tcp_count, udp_connections |-> udp_count,
         total_connections |-> tcp_count + udp_count]

get_network_overview(env) ==
    LET netstat_output == run_command(env.netstat_i)
    IN  [info |-> [interfaces |-> Interfaces(SplitAll(PySlice(netstat_output, 1,
                                                 Len(netstat_output)), -1), EmptyDict),
                   connections |-> Connections(Join(run_command(env.netstat_an))),
                   summary |-> EmptyDict,
                   top_network_processes |->
                       get_network_intensive_processes(run_command(env.net), 10)],
         commands |-> <<NetstatInterfacesCommand, NetstatConnectionsCommand,
                        CommandOf("network")>>]

\* uptime_output.split('up')[1].split(',')[0].strip(), if 'up' occurs
WithUptime(system_info, uptime_output) ==
    IF Contains(uptime_output, <<"u", "p">>)
    THEN Put(system_info, "uptime",
             Strip(SplitOn(SplitOn(uptime_output, <<"u", "p">>)[2], <<",">>)[1]))
    ELSE system_info

\* the number before the first 'user' of the part before 'load average'; no
\* word before it is an IndexError, which leaves the key out
WithUsers(system_info, uptime_output) ==
    LET users_part == SplitOn(uptime_output, <<"l", "o", "a", "d", " ", "a", "v", "e", "r", "a", "g", "e">>)[1]
        words      == Split(SplitOn(users_part, <<"u", "s", "e", "r">>)[1], -1)
    IN  IF ~Contains(uptime_output, <<"u", "s", "e", "r">>) \/ ~Contains(users_part, <<"u", "s", "e", "r">>)
           \/ words = <<>>
        THEN system_info
        ELSE Put(system_info, "logged_in_users",
                 IF IsDigitStr(words[Len(words)]) THEN ParseInt(words[Len(words)]) ELSE 1)

get_system_info(env) ==
    LET uptime_output == Join(run_command(env.uptime))
        versioned     == Put(WithUptime(EmptyDict, uptime_output), "macos_version",
                             Strip(Join(run_command(env.sw_vers))))
    IN  [info |-> Put(WithUsers(versioned, uptime_output), "total_processes",
                      Len(get_all_cpu_processes(run_command(env.cpu)))),
         commands |-> <<UptimeCommand, SwVersCommand, UptimeCommand, CommandOf("cpu")>>]

----------------------------------------------------------------------------
(* safe_call, get_resource_intensive_processes and get_system_overview *)

\* a slip: the exception is not caught
safe_call_unguarded(r, error_prefix) == r

\* safe_call(func, error_prefix) for a call that returned or raised r: the
\* value, or the error payload; it returns in either case
safe_call(r, error_prefix) ==
    IF r.kind = "raise" THEN Ok([error |-> <<error_prefix, r.exc>>])
    ELSE r

\* the dict a tool builds from the results of its safe calls: the exception
\* of an unguarded call leaves the tool
Built(keys, calls) ==
    IF \E i \in 1..Len(calls) : calls[i].kind = "raise"
    THEN calls[CHOOSE i \in 1..Len(calls) :
                   /\ calls[i].kind = "raise"
                   /\ \A j \in 1..(i - 1) : calls[j].kind = "ok"]
    ELSE Ok([k \in Range(keys) |->
                calls[CHOOSE i \in 1..Len(keys) : keys[i] = k].value])

\* get_resource_intensive_processes: the three extractions with the default
\* limit, each in a safe call
get_resource_intensive_processes(env) ==
    [response |-> Built(
         <<"cpu_intensive_processes", "memory_intensive_processes",
           "network_intensive_processes">>,
         <<safe_call(get_cpu_intensive_processes(run_command(env.cpu), DefaultLimit),
                     "CPU monitoring failed"),
           safe_call(get_memory_intensive_processes(run_command(env.mem), DefaultLimit),
                     "Memory monitoring failed"),
           safe_call(Ok(get_network_intensive_processes(run_command(env.net), DefaultLimit)),
                     "Network monitoring failed")>>),
     commands |-> <<CommandOf("cpu"), CommandOf("memory"), CommandOf("network")>>]

\* the sections of the overview in the order they are taken
Sections == <<"cpu", "memory", "disk", "network", "system", "performance_analysis">>

ErrorPrefix(section) ==
    CASE section = "cpu"     -> "CPU overview failed"
      [] section = "memory"  -> "Memory overview failed"
      [] section = "disk"    -> "Disk overview failed"
      [] section = "network" -> "Network overview failed"
      [] section = "system"  -> "System info failed"
      [] section = "performance_analysis" -> "Performance analysis failed"

FunctionOf(section) ==
    CASE section = "cpu"     -> "get_cpu_overview"
      [] section = "memory"  -> "get_memory_overview"
      [] section = "disk"    -> "get_disk_overview"
      [] section = "network" -> "get_network_overview"
      [] section = "system"  -> "get_system_info"
      [] section = "performance_analysis" -> "analyze_system_performance"

\* the function behind a section, on the machine env
Taken(section, env) ==
    CASE section = "cpu"     -> get_cpu_overview(env)
      [] section = "memory"  -> get_memory_overview(env)
      [] section = "disk"    -> get_disk_overview(env)
      [] section = "network" -> get_network_overview(env)
      [] section = "system"  -> get_system_info(env)
      [] section = "performance_analysis" -> analyze_system_performance(env)

\* get_current_timestamp(): the time of the call, which the model does not
\* look into
Timestamp == "now"

\* the overview built from what the six functions returned, in the order of
\* Sections
Overview(taken) ==
    [response |-> Built(<<"timestamp">> \o Sections,
                        <<Ok(Timestamp)>> \o [i \in 1..Len(Sections) |->
                            safe_call(Ok(taken[i].info), ErrorPrefix(Sections[i]))]),
     commands |-> taken[1].commands \o taken[2].commands \o taken[3].commands
                      \o taken[4].commands \o taken[5].commands \o taken[6].commands]

\* get_system_overview on a machine that stays as it is during the call:
\* each section's function is called once
get_system_overview(env) ==
    CHOOSE overview \in
        {Overview(taken) :
            taken \in {[i \in 1..Len(Sections) |-> Taken(Sections[i], env)]}} : TRUE

----------------------------------------------------------------------------
(* The two summary tools, on a machine that stays as it is *)

\* netstat -i: an interface line of ten fields after the header and one of
\* nine; the header alone
NetstatInterfacesSamples == <<
    Exit0(<< <<"N", "a", "m", "e", " ", "M", "t", "u", " ", "N", "e", "t", "w", "o", "r", "k", " ", "A", "d", "d", "r", "e", "s", "s", " ", "I", "p", "k", "t", "s", " ", "I", "e", "r", "r", "s", " ", "I", "b", "y", "t", "e", "s", " ", "O", "p", "k", "t", "s", " ", "O", "e", "r", "r", "s", " ", "C", "o", "l", "l">>,
       <<"e", "n", "0", " ", "1", "5", "0", "0", " ", "<", "L", "i", "n", "k", "#", "4", ">", " ", "a", "a", ":", "b", "b", " ", "1", "2", "0", " ", "0", " ", "9", "0", "0", "0", " ", "8", "0", " ", "1", " ", "0">>,
       <<"l", "o", "0", " ", "1", "6", "3", "8", "4", " ", "<", "L", "i", "n", "k", "#", "1", ">", " ", "5", " ", "0", " ", "5", " ", "0", " ", "0">>,
       <<>> >>),
    Exit0(<< <<"N", "a", "m", "e", " ", "M", "t", "u", " ", "N", "e", "t", "w", "o", "r", "k", " ", "A", "d", "d", "r", "e", "s", "s", " ", "I", "p", "k", "t", "s", " ", "I", "e", "r", "r", "s", " ", "I", "b", "y", "t", "e", "s", " ", "O", "p", "k", "t", "s", " ", "O", "e", "r", "r", "s", " ", "C", "o", "l", "l">> >>) >>

\* netstat -an: two TCP sockets and one UDP socket
NetstatConnectionsSample ==
    Exit0(<< <<"A", "c", "t", "i", "v", "e", " ", "I", "n", "t", "e", "r", "n", "e", "t", " ", "c", "o", "n", "n", "e", "c", "t", "i", "o", "n", "s">>,
       <<"t", "c", "p", "4", " ", "0", " ", "0", " ", "*", ".", "8", "0", " ", "*", ".", "*", " ", "L", "I", "S", "T", "E", "N">>,
       <<"t", "c", "p", "6", " ", "0", " ", "0", " ", "*", ".", "8", "0", " ", "*", ".", "*", " ", "L", "I", "S", "T", "E", "N">>,
       <<"u", "d", "p", "4", " ", "0", " ", "0", " ", "*", ".", "5", "3", " ", "*", ".", "*">>,
       <<>> >>)

SwVersSample == Exit0(<< <<"1", "4", ".", "5">>,
       <<>> >>)

\* a machine with two processes, three connections and moderate usage
Steady ==
    [cpu |-> Healthy(2).cpu, mem |-> Healthy(2).mem, net |-> Healthy(3).net,
     top |-> TopSamples[1], uptime |-> UptimeSamples[1], ncpu |-> NcpuSamples[1],
     vm_stat |-> VmStatSamples[3], memsize |-> MemsizeSamples[1], df |-> DfSamples[3],
     netstat_i |-> NetstatInterfacesSamples[1], netstat_an |-> NetstatConnectionsSample,
     sw_vers |-> SwVersSample]

\* the machines the tools are run on.  The summary reads the three process
\* listings: listings that parse, that hold an unparsable line and that
\* could not be taken.  The overview reads the lsof listing and the overview
\* commands: usage, no usage, 0 cores, 0 bytes of memory, commands that fail.
ToolMachines ==
    {[Steady EXCEPT !.cpu = c, !.mem = m, !.net = n] :
        c \in {Healthy(2).cpu, Racing.cpu, Failing.cpu},
        m \in {Healthy(2).mem, Racing.mem, Failing.mem},
        n \in {Healthy(3).net, Racing.net, Failing.net}}
    \cup
    {[Steady EXCEPT !.net = n, !.top = t, !.uptime = u, !.ncpu = k, !.vm_stat = v,
                    !.memsize = b, !.df = d, !.netstat_i = i] :
        n \in {Healthy(3).net, Racing.net, Failing.net},
        t \in {TopSamples[1], TopSamples[3], TopSamples[9]},
        u \in {UptimeSamples[1], UptimeSamples[2]},
        k \in {NcpuSamples[1], NcpuSamples[3]},
        v \in {VmStatSamples[1], VmStatSamples[5]},
        b \in {MemsizeSamples[1], MemsizeSamples[2]},
        d \in {DfSamples[1], DfSamples[6]},
        i \in Range(NetstatInterfacesSamples)}

InitTools ==
    /\ sys \in ToolMachines
    /\ procs = <<>>
    /\ Idle

\* json.dumps(system_data, indent=2): the model holds the dict that is
\* written out
GetResourceIntensiveProcesses ==
    /\ pc = "idle"
    /\ \E r \in {get_resource_intensive_processes(sys)} :
          /\ result' = r.response
          /\ commands' = r.commands
    /\ call' = [op |-> "get_resource_intensive_processes"]
    /\ ran' = {"safe_call", "get_cpu_intensive_processes",
               "get_memory_intensive_processes", "get_network_intensive_processes"}
    /\ pc' = "done"
    /\ UNCHANGED <<sys, procs>>

GetSystemOverview ==
    /\ pc = "idle"
    /\ \E r \in {get_system_overview(sys)} :
          /\ result' = r.response
          /\ commands' = r.commands
    /\ call' = [op |-> "get_system_overview"]
    /\ ran' = {"safe_call", "get_current_timestamp"}
                   \cup {FunctionOf(Sections[i]) : i \in 1..Len(Sections)}
    /\ pc' = "done"
    /\ UNCHANGED <<sys, procs>>

NextTools == GetResourceIntensiveProcesses \/ GetSystemOverview \/ Return

SpecTools == InitTools /\ [][NextTools]_vars

----------------------------------------------------------------------------
(* get_system_overview, section by section, on a machine that changes *)

\* a machine as Steady whose CPU usage is 15 or 85, memory usage 70 or 90
\* and disk usage 80 or 95 per cent
ChangingMachines ==
    {[Steady EXCEPT !.top = t, !.vm_stat = v, !.df = d] :
        t \in {TopSamples[1], TopSamples[3]},
        v \in {VmStatSamples[3], VmStatSamples[1]},
        d \in {DfSamples[3], DfSamples[1]}}

InitOverview ==
    /\ sys \in ChangingMachines
    /\ procs = <<>>
    /\ Idle

\* the section after s, "done" after the last
Following(s) ==
    LET i == CHOOSE i \in 1..Len(Sections) : Sections[i] = s
    IN  IF i = Len(Sections) THEN "done" ELSE Sections[i + 1]

\* the call starts: the dict literal is evaluated entry by entry, the
\* timestamp first
BeginOverview ==
    /\ pc = "idle"
    /\ call' = [op |-> "get_system_overview"]
    /\ result' = [kind |-> "partial", value |-> [timestamp |-> Timestamp]]
    /\ ran' = {"get_current_timestamp"}
    /\ pc' = Sections[1]
    /\ UNCHANGED <<sys, procs, commands>>

\* the next entry: the section's function runs its commands on the machine
\* as it is now
TakeSection ==
    /\ pc \in Range(Sections)
    /\ \E r \in {Taken(pc, sys)} :
          /\ result' = [kind |-> IF Following(pc) = "done" THEN "ok" ELSE "partial",
                        value |-> Put(result.value, pc,
                                      safe_call(Ok(r.info), ErrorPrefix(pc)).value)]
          /\ commands' = commands \o r.commands
    /\ ran' = ran \cup {"safe_call", FunctionOf(pc)}
    /\ pc' = Following(pc)
    /\ UNCHANGED <<sys, procs, call>>

\* between two entries the load on the machine changes
SystemChanges ==
    /\ pc \in Range(Sections)
    /\ sys' \in ChangingMachines \ {sys}
    /\ UNCHANGED <<procs, pc, call, result, ran, commands>>

NextOverview == BeginOverview \/ TakeSection \/ SystemChanges \/ Return

SpecOverview == InitOverview /\ [][NextOverview]_vars

----------------------------------------------------------------------------
(* Properties of the two summary tools *)

SummaryDone == pc = "done" /\ call.op = "get_resource_intensive_processes"

OverviewDone == pc = "done" /\ call.op = "get_system_overview"

\* the three extractions of the summary on the machine
Extraction(key) ==
    CASE key = "cpu_intensive_processes" ->
             get_cpu_intensive_processes(run_command(sys.cpu), DefaultLimit)
      [] key = "memory_intensive_processes" ->
             get_memory_intensive_processes(run_command(sys.mem), DefaultLimit)
      [] key = "network_intensive_processes" ->
             Ok(get_network_intensive_processes(run_command(sys.net), DefaultLimit))

ExtractionKeys == {"cpu_intensive_processes", "memory_intensive_processes",
                   "network_intensive_processes"}

\* the value is an inline error payload
IsErrorPayload(v) == DOMAIN v = {"error"}

\* the section's function failed on the machine: the memory overview divides
\* by a total of 0, the analysis by 0 cores
SectionFailed(section) ==
    CASE section = "memory" -> PercentRaises(WithUsed(WithFree(WithTotal(
                                   ParseVmStat(run_command(sys.vm_stat), EmptyDict),
                                   Join(run_command(sys.memsize))))))
      [] section = "performance_analysis" -> LoadRaises(get_cpu_overview(sys).info)
      [] OTHER -> FALSE

\* the key every normally computed section holds
KeyOfSection(section) ==
    CASE section = "cpu"     -> "cores"
      [] section = "disk"    -> "summary"
      [] section = "network" -> "connections"
      [] section = "system"  -> "macos_version"
      [] section = "performance_analysis" -> "status"

\* C16: in get_resource_intensive_processes and get_system_overview every
\* sub-query is fault-isolated: the operation never raises, every sub-query
\* is attempted whichever failed, the entry of a failed sub-query is an
\* inline error payload, and every other entry is what its sub-query
\* computes.
C16_FaultIsolation ==
    /\ SummaryDone =>
          /\ result.kind = "ok"
          /\ DOMAIN result.value = ExtractionKeys
          /\ commands = <<CommandOf("cpu"), CommandOf("memory"), CommandOf("network")>>
          /\ \A key \in ExtractionKeys :
                IF Extraction(key).kind = "raise"
                THEN IsErrorPayload(result.value[key])
                ELSE result.value[key] = Extraction(key).value
    /\ OverviewDone =>
          /\ result.kind = "ok"
          /\ DOMAIN result.value = {"timestamp"} \cup Range(Sections)
          /\ \A taken \in {[i \in 1..Len(Sections) |-> Taken(Sections[i], sys)]} :
                \A i \in 1..Len(Sections) :
                    LET section == Sections[i] IN
                    /\ InSeq(taken[i].commands[1], commands)
                    /\ result.value[section] = taken[i].info
                    /\ IF SectionFailed(section)
                       THEN \/ ErrorKey \in DOMAIN result.value[section]
                            \/ IsErrorPayload(result.value[section])
                       ELSE section # "memory"
                                => KeyOfSection(section) \in DOMAIN result.value[section]

\* the CPU extraction raised on an unparsable line: its entry is the error
\* payload, and the memory and network entries list their processes
C16_Witness ==
    /\ SummaryDone
    /\ Extraction("cpu_intensive_processes").kind = "raise"
    /\ IsErrorPayload(result.value["cpu_intensive_processes"])
    /\ Extraction("memory_intensive_processes").kind = "ok"
    /\ Len(result.value["memory_intensive_processes"]) = 2
    /\ Len(result.value["network_intensive_processes"]) = 2

\* C19 as stated: the performance_analysis section of a get_system_overview
\* response is derived from the snapshots the response reports, also when
\* the system changes during the call: 'High CPU usage detected' is present
\* exactly when the reported cpu.total_usage_percent is above 80, and 'Disk
\* space critically low' exactly when the reported overall_usage_percent is
\* above 90.
C19_AnalysisOfReportedSnapshots ==
    (OverviewDone /\ "bottlenecks" \in DOMAIN result.value["performance_analysis"]) =>
        LET cpu         == result.value["cpu"]
            disk        == result.value["disk"]
            bottlenecks == result.value["performance_analysis"].bottlenecks
        IN  /\ InSeq("High CPU usage detected", bottlenecks)
                   <=> /\ "total_usage_percent" \in DOMAIN cpu
                       /\ Above(cpu["total_usage_percent"], 80)
            /\ InSeq("Disk space critically low", bottlenecks)
                   <=> /\ "overall_usage_percent" \in DOMAIN disk.summary
                       /\ Above(disk.summary["overall_usage_percent"], 90)

----------------------------------------------------------------------------
(* run_command on its own, over every outcome of the child *)

\* lines a child prints: a number, a number in blanks, nothing, a complaint
RunLines == {<<"8">>, <<" ", "4", "0", "9", "6", "0", "0", " ">>, <<>>, <<"l", "s", "o", "f", ":", " ", "n", "o", " ", "p", "w", "d", " ", "e", "n", "t", "r", "y", " ", "f", "o", "r", " ", "U", "I", "D", " ", "5", "0", "1">>}

RunTexts == SeqsUpTo(RunLines, MaxLines)

\* what the operating system does with the command: it exits with status 0
\* or 1 having printed a text, exceeds the ten seconds, or cannot be started
Children ==
    {[outcome |-> o, stdout |-> text] : o \in {"exit0", "exit1"}, text \in RunTexts}
        \cup {TimedOut, NotSpawned}

RunCommands == {TopCommand, NcpuCommand, "lsof -i -n -P"}

InitRun ==
    /\ sys \in {[child |-> p] : p \in Children}
    /\ procs = <<>>
    /\ Idle

\* one call: subprocess.run once, its stripped output or the error text
\* returned
RunCommand ==
    /\ pc = "idle"
    /\ \E cmd \in RunCommands :
          /\ call' = [op |-> "run_command", cmd |-> cmd]
          /\ commands' = <<cmd>>
    /\ result' = Ok(run_command(sys.child))
    /\ ran' = {}
    /\ pc' = "done"
    /\ UNCHANGED <<sys, procs>>

NextRun == RunCommand \/ Return

SpecRun == InitRun /\ [][NextRun]_vars

RunDone == pc = "done" /\ call.op = "run_command"

\* what a child that exited with status 0 can make run_command return
Successes == {run_command(Exit0(text)) : text \in RunTexts}

\* C17: run_command never raises and spawns exactly one child per call, and
\* when the child timed out, exited with a non-zero status or could not be
\* started, the value returned is one that no successfully captured standard
\* output produces
C17_FailureDistinguishable ==
    RunDone =>
        /\ result.kind = "ok"
        /\ Len(commands) = 1
        /\ sys.child.outcome # "exit0" => result.value \notin Successes

----------------------------------------------------------------------------
(* sort_processes: failure of the sort *)

\* how often x occurs in s
Occurrences(s, x) == Cardinality({i \in 1..Len(s) : s[i] = x})

IsPermutation(s, t) ==
    /\ Len(s) = Len(t)
    /\ \A i \in 1..Len(t) : Occurrences(s, t[i]) = Occurrences(t, t[i])

\* C18: sort_processes never raises; for every list of records, field and
\* order it returns the records in the order of that field's key when it
\* sorts them, and the input list unchanged when the list is empty, starts
\* with an error record, the field is not a sort field, or sorting fails
\* (a record without the key that is indexed, a key that cannot be
\* compared); in every case the result is a permutation of the input.
C18_SortedOrUnchanged ==
    SortDone =>
        /\ result.kind = "ok"
        /\ IsPermutation(result.value, procs)
        /\ IF call.sort_by \in SortFields /\ Sorts(procs, call.sort_by)
           THEN InOrder(result.value, call.sort_by, call.sort_order)
           ELSE result.value = procs

\* a list whose first two records are out of order by cpu_percent and whose
\* third has None there comes back as it was
C18_Witness ==
    /\ SortDone
    /\ call.sort_by = "cpu_percent"
    /\ call.sort_order = "asc"
    /\ Len(procs) = 3
    /\ \A i \in 1..2 : HasKey(procs[i], "cpu_percent") /\ procs[i].cpu_percent # None
    /\ FloatLess(procs[2].cpu_percent, procs[1].cpu_percent)
    /\ HasKey(procs[3], "cpu_percent") /\ procs[3].cpu_percent = None
    /\ result.value = procs

----------------------------------------------------------------------------
(* The pages of one listing *)

\* the response to the request of the call for page p, everything else and
\* the machine being the same
PageOf(p) ==
    get_processes_by_category(sys, call.process_type, p, call.page_size,
                              call.sort_by, call.sort_order).response

\* the processes of pages 1..n, one after the other
RECURSIVE Concatenated(_)
Concatenated(n) == IF n = 0 THEN <<>> ELSE Concatenated(n - 1) \o PageOf(n).processes

\* the whole list of the call's category in the order the handler gives it
FullList ==
    ApplySort(GetAll(sys, Lower(call.process_type)), Lower(call.process_type),
              Lower(call.sort_by), NormalizeOrder(call.sort_order))

\* C20: for a fixed process list, category, sort field, order and page_size
\* the processes of pages 1..total_pages, concatenated, are exactly the full
\* list in its order (every process on exactly one page, no overlap, no
\* gap); every page before the last holds exactly page_size items, and every
\* page beyond total_pages is empty.
C20_PagesPartitionList ==
    QuerySucceeded =>
        LET paging == result.value.pagination IN
        /\ call.page = 1
               => Concatenated(paging.total_pages) = FullList
        /\ paging.current_page < paging.total_pages
               => Len(result.value.processes) = paging.page_size
        /\ paging.current_page > paging.total_pages
               => result.value.processes = <<>>

\* the first of several pages of a sorted list whose last page is not full
C20_Witness ==
    /\ QuerySucceeded
    /\ call.sort_by = "pid"
    /\ call.page = 1
    /\ result.value.pagination.total_pages >= 3
    /\ result.value.pagination.total_processes % result.value.pagination.page_size # 0
    /\ Len(PageOf(result.value.pagination.total_pages).processes)
           < result.value.pagination.page_size
    /\ Concatenated(result.value.pagination.total_pages) = FullList
====
